---- MODULE Spec2Model ----
(***************************************************************************)
(* Model of poly-trade-scan: the order decoder, the wallet filter, the     *)
(* block processor and the historical downloader (thread pool, batches,    *)
(* per-call retry).                                                        *)
(*                                                                         *)
(* Python values are represented as follows.                               *)
(*   - Optional[x]      : a sequence of length 0 (None) or 1 (<<x>>).      *)
(*   - a str that the code parses (hex text, a receipt status) : a         *)
(*     sequence of one-character strings, so that parsing is computed.     *)
(*   - a call that may raise : a record [raised, exc, ...].                *)
(***************************************************************************)
EXTENDS Integers, Sequences, FiniteSets, TLC

(***************************************************************************)
(* Program constants.                                                      *)
(***************************************************************************)
\* src/constants.py:23
RPC_MAX_RETRIES == 3
\* src/constants.py:24 (1.0 seconds)
RPC_RETRY_DELAY_SECONDS == 1

(***************************************************************************)
(* Bounds of the model.                                                    *)
(***************************************************************************)
\* transactions per block drawn for the block-level specification
MaxTxs == 2
\* highest block number of the modelled chain (its head)
MaxBlock == 4
\* POSTs that fail during one download
MaxFaults == 3

(***************************************************************************)
(* Generic helpers.                                                        *)
(***************************************************************************)
Max(a, b) == IF a >= b THEN a ELSE b
Min(a, b) == IF a <= b THEN a ELSE b

RECURSIVE Pow2(_)
Pow2(n) == IF n <= 0 THEN 1 ELSE 2 * Pow2(n - 1)

RECURSIVE Flatten(_)
Flatten(ss) == IF ss = <<>> THEN <<>> ELSE Head(ss) \o Flatten(Tail(ss))

Reverse(s) == [i \in 1..Len(s) |-> s[Len(s) + 1 - i]]

(***************************************************************************)
(* Hexadecimal text.                                                       *)
(***************************************************************************)
HexChars ==
  {"0","1","2","3","4","5","6","7","8","9",
   "a","b","c","d","e","f","A","B","C","D","E","F"}

HexVal(c) ==
  CASE c = "0" -> 0 [] c = "1" -> 1 [] c = "2" -> 2 [] c = "3" -> 3
    [] c = "4" -> 4 [] c = "5" -> 5 [] c = "6" -> 6 [] c = "7" -> 7
    [] c = "8" -> 8 [] c = "9" -> 9
    [] c \in {"a","A"} -> 10 [] c \in {"b","B"} -> 11
    [] c \in {"c","C"} -> 12 [] c \in {"d","D"} -> 13
    [] c \in {"e","E"} -> 14 [] c \in {"f","F"} -> 15

RECURSIVE HexValue(_)
HexValue(ds) ==
  IF ds = <<>> THEN 0
  ELSE 16 * HexValue(SubSeq(ds, 1, Len(ds) - 1)) + HexVal(ds[Len(ds)])

\* Python's int(s, 16): an optional 0x/0X prefix, then at least one hex digit;
\* anything else is a ValueError.
PyInt16(s) ==
  LET d == IF Len(s) >= 2 /\ s[1] = "0" /\ s[2] \in {"x", "X"}
           THEN SubSeq(s, 3, Len(s)) ELSE s
  IN IF d = <<>> \/ \E i \in DOMAIN d : d[i] \notin HexChars
     THEN [err |-> TRUE, val |-> 0]
     ELSE [err |-> FALSE, val |-> HexValue(d)]

\* Python's bytes.fromhex(text): pairs of hex digits; an odd length or a
\* character that is no hex digit is a ValueError.
RECURSIVE HexPairs(_)
HexPairs(cs) ==
  IF cs = <<>> THEN <<>>
  ELSE <<16 * HexVal(cs[1]) + HexVal(cs[2])>> \o HexPairs(SubSeq(cs, 3, Len(cs)))

FromHex(cs) ==
  IF Len(cs) % 2 # 0 \/ \E i \in DOMAIN cs : cs[i] \notin HexChars
  THEN [err |-> TRUE, bytes |-> <<>>]
  ELSE [err |-> FALSE, bytes |-> HexPairs(cs)]

\* str.lower() on the address texts the model uses.
Lower(a) ==
  CASE a = "0xAA" -> "0xaa"
    [] a = "0xBB" -> "0xbb"
    [] a = "0xCC" -> "0xcc"
    [] OTHER -> a

(***************************************************************************)
(* src/core/abi.py                                                         *)
(***************************************************************************)
\* bytes.fromhex("2287e350")
MATCH_ORDERS_SELECTOR == FromHex(<<"2","2","8","7","e","3","5","0">>).bytes

(***************************************************************************)
(* Transaction input.  The text of tx["input"] is                          *)
(*   prefix ++ head ++ body                                                *)
(* where head holds the first (up to) 8 characters after the prefix, kept  *)
(* as characters, and body stands for the rest of the text: the            *)
(* ABI-encoded arguments.  eth_abi is an external library; a body is       *)
(* described by what eth_abi.decode makes of it:                           *)
(*   kind "ok"        decodes to (taker, makers, ...)                      *)
(*   kind "truncated" / "malformed"   eth_abi raises                       *)
(*   kind "nonhex"    the text is not hexadecimal (bytes.fromhex raises)   *)
(*   kind "none"      the text ends with the head                          *)
(***************************************************************************)
NoBody == [kind |-> "none", taker |-> <<>>, makers |-> <<>>]
OkBody(taker, makers) == [kind |-> "ok", taker |-> taker, makers |-> makers]
BadBody(kind) == [kind |-> kind, taker |-> <<>>, makers |-> <<>>]

TxInput(prefix, head, body) == [prefix |-> prefix, head |-> head, body |-> body]

BodyLen(body) == IF body.kind = "none" THEN 0 ELSE 1

\* eth_abi.decode(MATCH_ORDERS_ABI_TYPES, data): the 7-tuple, or an exception.
AbiDecode(body) ==
  IF body.kind = "ok"
  THEN [err |-> FALSE, decoded |-> <<body.taker, body.makers, 0, 0, <<>>, 0, <<>>>>]
  ELSE [err |-> TRUE, decoded |-> <<>>]

(***************************************************************************)
(* src/core/decoder.py                                                     *)
(***************************************************************************)
\* TransactionDecoder._parse_order
ParseOrder(order_tuple) ==
  [salt |-> order_tuple[1],
   maker |-> order_tuple[2],
   signer |-> order_tuple[3],
   taker |-> order_tuple[4],
   token_id |-> ToString(order_tuple[5]),
   maker_amount |-> order_tuple[6],
   taker_amount |-> order_tuple[7],
   expiration |-> order_tuple[8],
   nonce |-> order_tuple[9],
   fee_rate_bps |-> order_tuple[10],
   side |-> order_tuple[11],
   signature_type |-> order_tuple[12],
   signature |-> order_tuple[13]]

\* _extract_orders that appends the taker order after the maker orders
ExtractOrdersTakerLast(decoded) ==
  LET taker_order == decoded[1]
      maker_orders == decoded[2]
  IN [i \in 1..Len(maker_orders) |-> ParseOrder(maker_orders[i])]
       \o <<ParseOrder(taker_order)>>

\* TransactionDecoder._extract_orders
ExtractOrders(decoded) ==
  LET taker_order == decoded[1]
      maker_orders == decoded[2]
  IN <<ParseOrder(taker_order)>>
       \o [i \in 1..Len(maker_orders) |-> ParseOrder(maker_orders[i])]

\* the try block of decode without the selector comparison
DecodeTryNoSelectorCheck(tx_input) ==
  LET text == IF tx_input.prefix = "0x" THEN tx_input.head
              ELSE IF tx_input.prefix = "" THEN tx_input.head
              ELSE <<"0", "X">> \o tx_input.head
      hx == FromHex(text)
      nbytes == Len(hx.bytes) + BodyLen(tx_input.body)
      dec == AbiDecode(tx_input.body)
  IN IF hx.err \/ tx_input.body.kind = "nonhex"
     THEN [raised |-> TRUE, exc |-> "ValueError", orders |-> <<>>, abi_called |-> FALSE]
     ELSE IF nbytes < 4
     THEN [raised |-> FALSE, exc |-> "", orders |-> <<>>, abi_called |-> FALSE]
     ELSE IF dec.err
     THEN [raised |-> TRUE, exc |-> "DecodingError", orders |-> <<>>, abi_called |-> TRUE]
     ELSE [raised |-> FALSE, exc |-> "", orders |-> <<ExtractOrders(dec.decoded)>>,
           abi_called |-> TRUE]

\* TransactionDecoder.decode, the body of the try block: what it returns
\* (None or the order list) or raises, and whether eth_abi.decode was called.
\* bytes.fromhex reads the whole text first; a text that does not begin
\* with "0x" is read as it is.
DecodeTry(tx_input) ==
  LET text == IF tx_input.prefix = "0x" THEN tx_input.head
              ELSE IF tx_input.prefix = "" THEN tx_input.head
              ELSE <<"0", "X">> \o tx_input.head
      hx == FromHex(text)
      nbytes == Len(hx.bytes) + BodyLen(tx_input.body)
      selector == SubSeq(hx.bytes, 1, Min(4, Len(hx.bytes)))
      dec == AbiDecode(tx_input.body)
  IN IF hx.err \/ tx_input.body.kind = "nonhex"
     THEN [raised |-> TRUE, exc |-> "ValueError", orders |-> <<>>, abi_called |-> FALSE]
     ELSE IF nbytes < 4
     THEN [raised |-> FALSE, exc |-> "", orders |-> <<>>, abi_called |-> FALSE]
     ELSE IF selector # MATCH_ORDERS_SELECTOR
     THEN [raised |-> FALSE, exc |-> "", orders |-> <<>>, abi_called |-> FALSE]
     ELSE IF dec.err
     THEN [raised |-> TRUE, exc |-> "DecodingError", orders |-> <<>>, abi_called |-> TRUE]
     ELSE [raised |-> FALSE, exc |-> "", orders |-> <<ExtractOrders(dec.decoded)>>,
           abi_called |-> TRUE]

\* decode without its except clause
DecodeNoCatch(tx_input) == DecodeTry(tx_input)

\* TransactionDecoder.decode: Optional[list[DecodedOrder]].  Every exception
\* inside the try block gives None.
Decode(tx_input) ==
  LET t == DecodeTry(tx_input)
  IN IF t.raised THEN [t EXCEPT !.raised = FALSE, !.exc = "", !.orders = <<>>]
     ELSE t

(***************************************************************************)
(* src/core/wallet_filter.py                                               *)
(***************************************************************************)
\* WalletFilter.__init__: the lower-cased set, or None for an empty list.
WalletSet(wallets) ==
  IF wallets = <<>> THEN <<>>
  ELSE << {Lower(wallets[i]) : i \in DOMAIN wallets} >>

\* _matches_wallet that compares the maker as it is written
MatchesWalletCaseSensitive(target, order) ==
  IF target = <<>> THEN TRUE ELSE order.maker \in target[1]

\* _matches_wallet without the track-all case
MatchesWalletNoTrackAll(target, order) ==
  IF target = <<>> THEN FALSE ELSE Lower(order.maker) \in target[1]

\* WalletFilter._matches_wallet
MatchesWallet(target, order) ==
  IF target = <<>> THEN TRUE ELSE Lower(order.maker) \in target[1]

\* _is_successful that only looks whether there is a receipt
IsSuccessfulLax(receipt) == [raised |-> FALSE, exc |-> "", val |-> receipt # <<>>]

\* WalletFilter._is_successful: receipt["status"] raises KeyError when the
\* key is absent, int(.., 16) raises ValueError on text that is no number.
IsSuccessful(receipt) ==
  IF receipt = <<>> THEN [raised |-> FALSE, exc |-> "", val |-> FALSE]
  ELSE IF ~receipt[1].has_status
       THEN [raised |-> TRUE, exc |-> "KeyError", val |-> FALSE]
  ELSE LET n == PyInt16(receipt[1].status)
       IN IF n.err THEN [raised |-> TRUE, exc |-> "ValueError", val |-> FALSE]
          ELSE [raised |-> FALSE, exc |-> "", val |-> (n.val = 1)]

\* WalletFilter.filter: Optional[DecodedOrder], or the exception of
\* _is_successful.
Filter(target, orders, receipt) ==
  LET ok == IsSuccessful(receipt)
      hits == {i \in DOMAIN orders : MatchesWallet(target, orders[i])}
  IN IF ok.raised THEN [raised |-> TRUE, exc |-> ok.exc, order |-> <<>>]
     ELSE IF ~ok.val THEN [raised |-> FALSE, exc |-> "", order |-> <<>>]
     ELSE IF hits = {} THEN [raised |-> FALSE, exc |-> "", order |-> <<>>]
     ELSE [raised |-> FALSE, exc |-> "",
           order |-> <<orders[CHOOSE i \in hits : \A j \in hits : i <= j]>>]

(***************************************************************************)
(* src/core/models.py                                                      *)
(***************************************************************************)
TradeData(block_number, transaction_hash, order) ==
  [block_number |-> block_number,
   transaction_hash |-> transaction_hash,
   wallet |-> order.maker,
   token_id |-> order.token_id,
   side |-> order.side,
   maker_amount |-> order.maker_amount,
   taker_amount |-> order.taker_amount]

(***************************************************************************)
(* Blocks and receipts as the RPC returns them.                            *)
(*   tx      = [hash, input]          (the endpoint always gives an input) *)
(*   receipt = [transactionHash, has_status, status]                       *)
(***************************************************************************)
Tx(hash, input) == [hash |-> hash, input |-> input]
Receipt(hash, status) == [transactionHash |-> hash, has_status |-> TRUE, status |-> status]
ReceiptNoStatus(hash) == [transactionHash |-> hash, has_status |-> FALSE, status |-> <<>>]

\* a lookup that takes the receipt at the head of the list, whatever its hash
ReceiptMapGetHead(rcpts, h) == IF rcpts = <<>> THEN <<>> ELSE <<rcpts[1]>>

\* receipt_map = {r["transactionHash"]: r for r in receipts}; receipt_map.get(h)
ReceiptMapGet(rcpts, h) ==
  LET idx == {i \in DOMAIN rcpts : rcpts[i].transactionHash = h}
  IN IF idx = {} THEN <<>>
     ELSE <<rcpts[CHOOSE i \in idx : \A j \in idx : j <= i]>>

(***************************************************************************)
(* src/core/block_processor.py                                             *)
(***************************************************************************)
\* BlockProcessor._process_transaction: Optional[TradeData] or an exception.
ProcessTransaction(target, tx, block_number, receipt) ==
  LET d == Decode(tx.input)
      orders == d.orders
  IN IF d.raised THEN [raised |-> TRUE, exc |-> d.exc, trade |-> <<>>]
     ELSE IF orders = <<>> THEN [raised |-> FALSE, exc |-> "", trade |-> <<>>]
     ELSE LET m == Filter(target, orders[1], receipt)
          IN IF m.raised THEN [raised |-> TRUE, exc |-> m.exc, trade |-> <<>>]
             ELSE IF m.order = <<>> THEN [raised |-> FALSE, exc |-> "", trade |-> <<>>]
             ELSE [raised |-> FALSE, exc |-> "",
                   trade |-> <<TradeData(block_number, tx.hash, m.order[1])>>]

\* BlockProcessor.process_block, after the two fetches: the loop over
\* block["transactions"].  The first exception ends the call.
RECURSIVE ProcessBlockFrom(_, _, _, _, _, _)
ProcessBlockFrom(target, block_number, transactions, rcpts, i, trades) ==
  IF i > Len(transactions) THEN [raised |-> FALSE, exc |-> "", trades |-> trades]
  ELSE LET tx == transactions[i]
           receipt == ReceiptMapGet(rcpts, tx.hash)
           r == ProcessTransaction(target, tx, block_number, receipt)
       IN IF r.raised THEN [raised |-> TRUE, exc |-> r.exc, trades |-> <<>>]
          ELSE ProcessBlockFrom(target, block_number, transactions, rcpts,
                                i + 1, trades \o r.trade)

ProcessBlock(target, block_number, transactions, rcpts) ==
  ProcessBlockFrom(target, block_number, transactions, rcpts, 1, <<>>)

(***************************************************************************)
(* src/downloader.py: TradeDownloader._process_block, after _fetch_block.  *)
(***************************************************************************)
StatusOk == <<"0", "x", "1">>

RECURSIVE DlProcessBlockFrom(_, _, _, _, _)
DlProcessBlockFrom(block_number, transactions, rcpts, i, trades) ==
  IF i > Len(transactions) THEN [raised |-> FALSE, exc |-> "", trades |-> trades]
  ELSE LET tx == transactions[i]
           d == Decode(tx.input)
           orders == d.orders
           receipt == ReceiptMapGet(rcpts, tx.hash)
           skip == \/ orders = <<>>
                   \/ receipt = <<>>
                   \/ ~receipt[1].has_status
                   \/ receipt[1].status # StatusOk
       IN IF d.raised THEN [raised |-> TRUE, exc |-> d.exc, trades |-> <<>>]
          ELSE IF skip
          THEN DlProcessBlockFrom(block_number, transactions, rcpts, i + 1, trades)
          ELSE DlProcessBlockFrom(block_number, transactions, rcpts, i + 1,
                 trades \o <<TradeData(block_number, tx.hash, orders[1][1])>>)

\* (trades found, transaction count in block), or the exception of the loop
DlProcessBlock(block_number, transactions, rcpts) ==
  LET r == DlProcessBlockFrom(block_number, transactions, rcpts, 1, <<>>)
  IN [raised |-> r.raised, exc |-> r.exc, trades |-> r.trades,
      tx_count |-> IF r.raised THEN 0 ELSE Len(transactions)]

(***************************************************************************)
(* Sample data: order tuples as eth_abi returns them (addresses lower      *)
(* case), transaction inputs, receipt statuses.                            *)
(***************************************************************************)
OrdA == <<11, "0xaa", "0xaa", "0x00", 7, 100, 200, 0, 0, 0, 0, 0, "sigA">>
OrdB == <<12, "0xbb", "0xbb", "0x00", 7, 300, 150, 0, 1, 0, 1, 0, "sigB">>
\* the same maker as OrdA, written in upper case; a maker nobody tracks
OrdC == <<13, "0xAA", "0xAA", "0x00", 8, 50, 60, 0, 2, 0, 0, 0, "sigC">>
OrdD == <<14, "0xdd", "0xdd", "0x00", 8, 70, 80, 0, 3, 0, 1, 0, "sigD">>

SelectorText == <<"2", "2", "8", "7", "e", "3", "5", "0">>

InTakerOnly == TxInput("0x", SelectorText, OkBody(OrdA, <<>>))
InTakerMaker == TxInput("0x", SelectorText, OkBody(OrdA, <<OrdB>>))
InMakerFirst == TxInput("", SelectorText, OkBody(OrdB, <<OrdA>>))
InTruncated == TxInput("0x", SelectorText, BadBody("truncated"))
InTransfer == TxInput("0x", <<"a", "9", "0", "5", "9", "c", "b", "b">>, BadBody("malformed"))
InEmpty == TxInput("0x", <<>>, NoBody)
InNonHex == TxInput("0x", <<"z", "z", "8", "7", "e", "3", "5", "0">>, NoBody)

SampleInputs == {InTakerOnly, InTakerMaker, InTruncated, InTransfer, InEmpty, InNonHex}

\* receipt["status"] texts: "0x1", "0x0", "0x01", "0x"
SampleStatuses ==
  { <<"0", "x", "1">>, <<"0", "x", "0">>, <<"0", "x", "0", "1">>, <<"0", "x">> }

\* target_wallets arguments of WalletFilter
SampleWallets == { <<>>, <<"0xBB">>, <<"0xcc", "0xAA">> }

TxHash(k) == "0xh" \o ToString(k)

(***************************************************************************)
(* The chain served by the RPC endpoint to the downloader: block b of      *)
(* chain c.  Receipts come in the reverse of the transaction order.        *)
(***************************************************************************)
BlockTxHash(b, k) == "0xb" \o ToString(b) \o "t" \o ToString(k)

SampleBlock(kind, b) ==
  CASE kind = 0 -> [transactions |-> <<>>, receipts |-> <<>>]
    [] kind = 1 ->
        [transactions |-> << Tx(BlockTxHash(b, 1), InTransfer),
                             Tx(BlockTxHash(b, 2), InTakerMaker) >>,
         receipts |-> << Receipt(BlockTxHash(b, 2), <<"0", "x", "1">>),
                         Receipt(BlockTxHash(b, 1), <<"0", "x", "1">>) >>]
    [] OTHER ->
        [transactions |-> << Tx(BlockTxHash(b, 1), InTakerOnly),
                             Tx(BlockTxHash(b, 2), InTakerMaker),
                             Tx(BlockTxHash(b, 3), InMakerFirst) >>,
         receipts |-> << Receipt(BlockTxHash(b, 3), <<"0", "x", "1">>),
                         Receipt(BlockTxHash(b, 2), <<"0", "x", "0">>),
                         Receipt(BlockTxHash(b, 1), <<"0", "x", "1">>) >>]

Chains == {0, 1}

ChainBlock(c, b) ==
  CASE c = 0 -> SampleBlock((b + 1) % 3, b)
    [] OTHER -> SampleBlock(IF b % 4 = 3 THEN 2 ELSE 0, b)

\* Python's hex(n) for n >= 0, and the endpoint reading it back.
HexDigit(d) ==
  CASE d = 0 -> "0" [] d = 1 -> "1" [] d = 2 -> "2" [] d = 3 -> "3"
    [] d = 4 -> "4" [] d = 5 -> "5" [] d = 6 -> "6" [] d = 7 -> "7"
    [] d = 8 -> "8" [] d = 9 -> "9" [] d = 10 -> "a" [] d = 11 -> "b"
    [] d = 12 -> "c" [] d = 13 -> "d" [] d = 14 -> "e" [] d = 15 -> "f"

RECURSIVE HexDigits(_)
HexDigits(n) ==
  IF n < 16 THEN <<HexDigit(n)>> ELSE HexDigits(n \div 16) \o <<HexDigit(n % 16)>>

Hex(n) == <<"0", "x">> \o HexDigits(n)

\* eth_getBlockByNumber / eth_getBlockReceipts for the block named hex_block
RpcBlock(c, hex_block) == ChainBlock(c, PyInt16(hex_block).val).transactions
RpcReceipts(c, hex_block) == ChainBlock(c, PyInt16(hex_block).val).receipts

(***************************************************************************)
(* State.                                                                  *)
(***************************************************************************)
VARIABLES
  \* ---- block-level specification: one block handed to both processors
  blk_number,     \* the block number
  blk_txs,        \* block["transactions"]
  blk_receipts,   \* the receipt list of the block
  blk_wallets,    \* target_wallets given to WalletFilter
  pb_result,      \* Optional: what BlockProcessor.process_block gave
  dl_result,      \* Optional: what TradeDownloader._process_block gave
  \* ---- TradeDownloader and one download() call
  max_rps,        \* self._max_rps
  chain,          \* which chain the endpoint serves
  pc,             \* position of the thread that runs download()
  start_block,    \* Optional[int]
  end_block,      \* Optional[int]
  max_blocks,
  i,              \* offset of the current batch in all_blocks
  j,              \* index of the future the for loop is waiting for
  task,           \* block number -> work item / future of _process_block
  main_call,      \* the _rpc_call frame of eth_blockNumber
  batch_trades,
  total_txs,
  total_trades,
  completed,
  delivered,      \* the lists on_trades was called with, in call order
  error,          \* Optional: the exception download() raised
  \* ---- history of the run (no code reads them)
  faults,         \* POSTs that have failed so far
  last_rpc,       \* Optional: the last attempt any _rpc_call made
  batches,        \* the batches submitted so far
  processed,      \* block number -> how often _process_block started on it
  collected,      \* blocks whose future.result() has returned or raised
  out_of_order    \* some work item ended before one submitted earlier

VARIABLES
  \* ---- filter-level specification: one call of WalletFilter.filter
  flt_wallets,    \* target_wallets given to WalletFilter
  flt_orders,     \* orders
  flt_receipt,    \* Optional: receipt
  flt_result      \* Optional: what filter gave

VARIABLES
  \* ---- TradeMonitor and its PolygonClient (one asyncio event loop)
  mon_pc,         \* the await at which the task that runs start() stands
  running,        \* self._running
  ws,             \* client._ws: "none" (None) or "set"
  conn,           \* the websocket connection: "none", "open", "closed"
  conn_close,     \* why it is closed: "", "local", "server", "drop"
  http_session,   \* client._http_session: "none", "open", "closed"
  call_closed,    \* the session the _rpc_call in progress holds was closed
  mon_wallets,    \* target_wallets given to start()
  inbox,          \* messages received on the connection, not yet read
  cur,            \* Optional: [n, block] the notification being processed
  cur_call,       \* the RPC method process_block is waiting for
  stop_pc,        \* the await at which the task that runs stop() stands
  mon_error,      \* Optional: the exception start() raised
  \* ---- history of the session (no code reads them)
  trace,          \* _on_block entries and exits, and the emit calls
  announced,      \* the block numbers of the notifications, in arrival order
  sent,           \* messages the server has sent after the confirmation
  sub_sent,       \* the eth_subscribe request has been sent
  confirmed,      \* recv() has returned the subscription confirmation
  stop_calls,     \* mon_pc at each call of stop()
  mon_faults,     \* RPC attempts of the client that have failed so far
  mon_last_rpc    \* Optional: the last RPC attempt of the client

VARIABLES
  \* ---- the download command of the CLI (_download) around download()
  session,        \* downloader._session: "open" or "closed"
  cli_pc,         \* "init", "try", or how _download ended: "returned", "raised"
  cli_args        \* Optional: the arguments download() was called with

VARIABLES
  \* ---- decoder-level specification: one call of TransactionDecoder.decode
  dec_input,      \* tx_input
  dec_result      \* Optional: what decode gave

VARIABLES
  \* ---- TradeMonitor.on / emit and the tasks emit creates
  callbacks,      \* self._callbacks: event -> the observers, in registration order
  em_blocks,      \* the blocks _on_block has processed, in order
  em_log,         \* the observer calls, task creations and task runs, in order
  em_tasks        \* the tasks created by emit that have not run yet (FIFO)

VARIABLES
  \* ---- TradeDownloader._next_id called by several threads
  request_id,     \* self._request_id
  id_pc,          \* thread -> where it stands in _next_id
  id_tmp,         \* thread -> the value it has loaded
  issued          \* the ids returned, with the thread, in return order

blkVars == <<blk_number, blk_txs, blk_receipts, blk_wallets, pb_result, dl_result>>
dlVars == <<max_rps, chain, pc, start_block, end_block, max_blocks, i, j, task,
            main_call, batch_trades, total_txs, total_trades, completed,
            delivered, error, faults, last_rpc, batches, processed, collected,
            out_of_order>>
fltVars == <<flt_wallets, flt_orders, flt_receipt, flt_result>>
monVars == <<mon_pc, running, ws, conn, conn_close, http_session, call_closed,
             mon_wallets, inbox, cur, cur_call, stop_pc, mon_error, trace,
             announced, sent, sub_sent, confirmed, stop_calls, mon_faults,
             mon_last_rpc>>
cliVars == <<session, cli_pc, cli_args>>
decVars == <<dec_input, dec_result>>
emVars == <<callbacks, em_blocks, em_log, em_tasks>>
idVars == <<request_id, id_pc, id_tmp, issued>>
vars == <<blkVars, dlVars, fltVars, monVars, cliVars, decVars, emVars, idVars>>

(***************************************************************************)
(* src/downloader.py: TradeDownloader._rpc_call                            *)
(***************************************************************************)
\* what one POST can end in
Failures == {"http429", "http_status", "transport", "timeout", "rpc_error"}
Outcomes == {"ok"} \cup Failures

\* the exception an unsuccessful POST becomes inside the try block
ExcOf(outcome) ==
  CASE outcome = "http429" -> "Rate limited (HTTP 429)"
    [] outcome = "http_status" -> "HTTP 500"
    [] outcome = "transport" -> "ConnectionError"
    [] outcome = "timeout" -> "Timeout"
    [] outcome = "rpc_error" -> "RPC error"

NoCall == [attempt |-> 0, last_error |-> "", slept |-> <<>>, status |-> "none"]
RpcCallInit == [attempt |-> 1, last_error |-> "", slept |-> <<>>, status |-> "running"]

\* _rpc_call that does not retry a rate-limited request
RpcAttemptNoRetry429(c, outcome) ==
  IF outcome = "ok" THEN [c EXCEPT !.status = "returned"]
  ELSE IF c.attempt < RPC_MAX_RETRIES /\ outcome # "http429"
       THEN [c EXCEPT !.last_error = ExcOf(outcome),
                      !.slept = Append(@, RPC_RETRY_DELAY_SECONDS * Pow2(c.attempt - 1)),
                      !.attempt = @ + 1]
       ELSE [c EXCEPT !.last_error = ExcOf(outcome), !.status = "raised"]

\* _rpc_call whose loop is range(1, RPC_MAX_RETRIES): one attempt short
RpcAttemptOneShort(c, outcome) ==
  IF outcome = "ok" THEN [c EXCEPT !.status = "returned"]
  ELSE IF c.attempt < RPC_MAX_RETRIES - 1
       THEN [c EXCEPT !.last_error = ExcOf(outcome),
                      !.slept = Append(@, RPC_RETRY_DELAY_SECONDS * Pow2(c.attempt - 1)),
                      !.attempt = @ + 1]
       ELSE [c EXCEPT !.last_error = ExcOf(outcome), !.status = "raised"]

\* one iteration of the for loop of _rpc_call on frame c
RpcAttempt(c, outcome) ==
  IF outcome = "ok" THEN [c EXCEPT !.status = "returned"]
  ELSE IF c.attempt < RPC_MAX_RETRIES
       THEN [c EXCEPT !.last_error = ExcOf(outcome),
                      !.slept = Append(@, RPC_RETRY_DELAY_SECONDS * Pow2(c.attempt - 1)),
                      !.attempt = @ + 1]
       ELSE [c EXCEPT !.last_error = ExcOf(outcome), !.status = "raised"]

RpcEvent(caller, method, c, outcome) ==
  [caller |-> caller, method |-> method, attempt |-> c.attempt, outcome |-> outcome,
   delay |-> LET n == RpcAttempt(c, outcome)
             IN IF Len(n.slept) > Len(c.slept) THEN n.slept[Len(n.slept)] ELSE 0]

(***************************************************************************)
(* src/downloader.py: TradeDownloader.download                             *)
(***************************************************************************)
Blocks == 0..MaxBlock

NewTask == [st |-> "new", call |-> "", rpc |-> NoCall, trades |-> <<>>, tx_count |-> 0]

\* all_blocks = list(range(start_block, end_block + 1))
AllBlocksOf(s, e) == [k \in 1..Max(0, e - s + 1) |-> s + k - 1]
all_blocks == AllBlocksOf(start_block[1], end_block[1])
total_blocks == Len(all_blocks)
batch_size == max_rps * 2

\* the slice taken one element too long: all_blocks[i : i + batch_size + 1]
BatchAtOverlap(blocks, off, size) == SubSeq(blocks, off + 1, Min(off + size + 1, Len(blocks)))

\* batch = all_blocks[i : i + batch_size]
BatchAt(blocks, off, size) == SubSeq(blocks, off + 1, Min(off + size, Len(blocks)))

CurBatch == batches[Len(batches)]

\* start_block = max(0, end_block - max_blocks) when it is None
ResolveStart(sb, e, mb) == IF sb = <<>> THEN Max(0, e - mb) ELSE sb[1]

\* _download enters its try block and calls
\* downloader.download(start_block, end_block, max_blocks, on_trades).
Download(sb, eb, mb) ==
  /\ UNCHANGED out_of_order
  /\ UNCHANGED last_rpc
  /\ pc = "idle"
  /\ max_blocks' = mb
  /\ IF eb = <<>>
     THEN /\ pc' = "head"
          /\ main_call' = RpcCallInit
          /\ start_block' = sb
          /\ end_block' = eb
     ELSE /\ pc' = "loop"
          /\ main_call' = main_call
          /\ end_block' = eb
          /\ start_block' = <<ResolveStart(sb, eb[1], mb)>>
  /\ cli_pc = "init"
  /\ cli_pc' = "try"
  /\ cli_args' = <<[start_block |-> sb, end_block |-> eb, max_blocks |-> mb]>>
  /\ UNCHANGED session
  /\ UNCHANGED <<max_rps, chain, i, j, task, batch_trades, total_txs, total_trades,
                 completed, delivered, error, faults, batches, processed, collected>>
  /\ UNCHANGED <<blkVars, fltVars, monVars, decVars, emVars, idVars>>

\* one attempt of self._rpc_call("eth_blockNumber", []); int(result, 16)
HeadAttempt(outcome) ==
  /\ UNCHANGED out_of_order
  /\ pc = "head"
  /\ outcome = "ok" \/ faults < MaxFaults
  /\ faults' = IF outcome = "ok" THEN faults ELSE faults + 1
  /\ LET c == RpcAttempt(main_call, outcome)
     IN /\ main_call' = IF c.status = "returned" THEN NoCall ELSE c
        /\ last_rpc' = <<RpcEvent(-1, "eth_blockNumber", main_call, outcome)>>
        /\ CASE c.status = "returned" ->
                  LET e == PyInt16(Hex(MaxBlock)).val
                  IN /\ end_block' = <<e>>
                     /\ start_block' = <<ResolveStart(start_block, e, max_blocks)>>
                     /\ pc' = "loop"
                     /\ error' = error
             [] c.status = "raised" ->
                  /\ pc' = "raised"
                  /\ error' = <<[exc |-> c.last_error, block |-> -1]>>
                  /\ UNCHANGED <<start_block, end_block>>
             [] OTHER -> UNCHANGED <<pc, error, start_block, end_block>>
  /\ UNCHANGED <<max_rps, chain, max_blocks, i, j, task, batch_trades, total_txs,
                 total_trades, completed, delivered, batches, processed, collected>>
  /\ UNCHANGED <<blkVars, fltVars, monVars, cliVars, decVars, emVars, idVars>>

\* futures = [executor.submit(self._process_block, b) for b in batch]
SubmitBatch ==
  /\ UNCHANGED out_of_order
  /\ UNCHANGED last_rpc
  /\ pc = "loop"
  /\ i < total_blocks
  /\ LET batch == BatchAt(all_blocks, i, batch_size)
         inb == {batch[k] : k \in DOMAIN batch}
     IN /\ task' = [b \in Blocks |->
                      IF b \in inb THEN [NewTask EXCEPT !.st = "queued"] ELSE task[b]]
        /\ batches' = Append(batches, batch)
  /\ j' = 1
  /\ batch_trades' = <<>>
  /\ pc' = "collect"
  /\ UNCHANGED <<max_rps, chain, start_block, end_block, max_blocks, i, main_call,
                 total_txs, total_trades, completed, delivered, error, faults,
                 processed, collected>>
  /\ UNCHANGED <<blkVars, fltVars, monVars, cliVars, decVars, emVars, idVars>>

\* a pool thread takes the oldest work item; at most max_workers threads exist
WorkerStart(b) ==
  /\ UNCHANGED out_of_order
  /\ UNCHANGED last_rpc
  /\ task[b].st = "queued"
  /\ \A b2 \in Blocks : task[b2].st = "queued" => b <= b2
  /\ Cardinality({b2 \in Blocks : task[b2].st = "running"}) < max_rps
  /\ task' = [task EXCEPT ![b] = [@ EXCEPT !.st = "running",
                                            !.call = "eth_getBlockByNumber",
                                            !.rpc = RpcCallInit]]
  /\ processed' = [processed EXCEPT ![b] = @ + 1]
  /\ UNCHANGED <<max_rps, chain, pc, start_block, end_block, max_blocks, i, j,
                 main_call, batch_trades, total_txs, total_trades, completed,
                 delivered, error, faults, batches, collected>>
  /\ UNCHANGED <<blkVars, fltVars, monVars, cliVars, decVars, emVars, idVars>>

\* _process_block(b) on a pool thread: one attempt of the _rpc_call it is in
\* (_fetch_block calls eth_getBlockByNumber, then eth_getBlockReceipts); the
\* attempt that returns the receipts also runs the loop over the
\* transactions and completes the future.
WorkerAttempt(b, outcome) ==
  /\ task[b].st = "running"
  /\ outcome = "ok" \/ faults < MaxFaults
  /\ faults' = IF outcome = "ok" THEN faults ELSE faults + 1
  /\ LET t == task[b]
         c == RpcAttempt(t.rpc, outcome)
         hex_block == Hex(b)
         r == DlProcessBlock(b, RpcBlock(chain, hex_block), RpcReceipts(chain, hex_block))
     IN /\ last_rpc' = <<RpcEvent(b, t.call, t.rpc, outcome)>>
        /\ out_of_order' =
             (\/ out_of_order
              \/ /\ c.status = "raised" \/ (c.status = "returned" /\ t.call = "eth_getBlockReceipts")
                 /\ \E b2 \in Blocks : b2 < b /\ task[b2].st \in {"queued", "running"})
        /\ task' = [task EXCEPT ![b] =
             CASE c.status = "raised" -> [t EXCEPT !.st = "failed", !.rpc = c]
               [] c.status = "returned" /\ t.call = "eth_getBlockByNumber" ->
                    [t EXCEPT !.call = "eth_getBlockReceipts", !.rpc = RpcCallInit]
               [] c.status = "returned" /\ t.call = "eth_getBlockReceipts" /\ r.raised ->
                    [t EXCEPT !.st = "failed", !.rpc = [c EXCEPT !.last_error = r.exc]]
               [] c.status = "returned" /\ t.call = "eth_getBlockReceipts" ->
                    [t EXCEPT !.st = "done", !.rpc = NoCall,
                              !.trades = r.trades, !.tx_count = r.tx_count]
               [] OTHER -> [t EXCEPT !.rpc = c]]
  /\ UNCHANGED <<max_rps, chain, pc, start_block, end_block, max_blocks, i, j,
                 main_call, batch_trades, total_txs, total_trades, completed,
                 delivered, error, batches, processed, collected>>
  /\ UNCHANGED <<blkVars, fltVars, monVars, cliVars, decVars, emVars, idVars>>

\* Collect, except that result() does not wait: a future that has not ended
\* is passed over.
CollectSkipUnfinished ==
  /\ pc = "collect"
  /\ j <= Len(CurBatch)
  /\ LET b == CurBatch[j]
     IN CASE task[b].st = "done" ->
               /\ collected' = collected \cup {b}
               /\ batch_trades' = batch_trades \o task[b].trades
               /\ total_txs' = total_txs + task[b].tx_count
               /\ j' = j + 1
               /\ UNCHANGED <<pc, error>>
          [] task[b].st = "failed" ->
               /\ collected' = collected \cup {b}
               /\ pc' = "unwind"
               /\ error' = <<[exc |-> task[b].rpc.last_error, block |-> b]>>
               /\ UNCHANGED <<batch_trades, total_txs, j>>
          [] OTHER ->
               /\ j' = j + 1
               /\ UNCHANGED <<collected, batch_trades, total_txs, pc, error>>
  /\ UNCHANGED delivered
  /\ UNCHANGED <<max_rps, chain, start_block, end_block, max_blocks, i, task,
                 main_call, total_trades, completed, faults, last_rpc, batches,
                 processed, out_of_order>>
  /\ UNCHANGED <<blkVars, fltVars, monVars, cliVars, decVars, emVars, idVars>>

\* Collect, except that on_trades is called with each future's trades as
\* soon as that future is collected.
CollectDeliverEach ==
  /\ pc = "collect"
  /\ j <= Len(CurBatch)
  /\ LET b == CurBatch[j]
     IN /\ task[b].st \in {"done", "failed"}
        /\ collected' = collected \cup {b}
        /\ IF task[b].st = "done"
           THEN /\ batch_trades' = batch_trades \o task[b].trades
                /\ delivered' = IF task[b].trades = <<>> THEN delivered
                                ELSE Append(delivered, task[b].trades)
                /\ total_txs' = total_txs + task[b].tx_count
                /\ j' = j + 1
                /\ UNCHANGED <<pc, error>>
           ELSE /\ pc' = "unwind"
                /\ error' = <<[exc |-> task[b].rpc.last_error, block |-> b]>>
                /\ UNCHANGED <<batch_trades, total_txs, j, delivered>>
  /\ UNCHANGED <<max_rps, chain, start_block, end_block, max_blocks, i, task,
                 main_call, total_trades, completed, faults, last_rpc, batches,
                 processed, out_of_order>>
  /\ UNCHANGED <<blkVars, fltVars, monVars, cliVars, decVars, emVars, idVars>>

\* Collect, except that the futures are taken as they complete
\* (as_completed) instead of in submission order.
CollectAsCompleted ==
  /\ pc = "collect"
  /\ j <= Len(CurBatch)
  /\ \E k \in DOMAIN CurBatch :
       LET b == CurBatch[k]
       IN /\ b \notin collected
          /\ task[b].st \in {"done", "failed"}
          /\ collected' = collected \cup {b}
          /\ IF task[b].st = "done"
             THEN /\ batch_trades' = batch_trades \o task[b].trades
                  /\ total_txs' = total_txs + task[b].tx_count
                  /\ j' = j + 1
                  /\ UNCHANGED <<pc, error>>
             ELSE /\ pc' = "unwind"
                  /\ error' = <<[exc |-> task[b].rpc.last_error, block |-> b]>>
                  /\ UNCHANGED <<batch_trades, total_txs, j>>
  /\ UNCHANGED delivered
  /\ UNCHANGED <<max_rps, chain, start_block, end_block, max_blocks, i, task,
                 main_call, total_trades, completed, faults, last_rpc, batches,
                 processed, out_of_order>>
  /\ UNCHANGED <<blkVars, fltVars, monVars, cliVars, decVars, emVars, idVars>>

\* Collect, except that the exception of a future is swallowed and the block
\* counts as one without trades.
CollectIgnoreFailure ==
  /\ pc = "collect"
  /\ j <= Len(CurBatch)
  /\ LET b == CurBatch[j]
     IN /\ task[b].st \in {"done", "failed"}
        /\ collected' = collected \cup {b}
        /\ batch_trades' = batch_trades \o task[b].trades
        /\ total_txs' = total_txs + task[b].tx_count
        /\ j' = j + 1
        /\ UNCHANGED <<pc, error>>
  /\ UNCHANGED delivered
  /\ UNCHANGED <<max_rps, chain, start_block, end_block, max_blocks, i, task,
                 main_call, total_trades, completed, faults, last_rpc, batches,
                 processed, out_of_order>>
  /\ UNCHANGED <<blkVars, fltVars, monVars, cliVars, decVars, emVars, idVars>>

\* for future in futures: trades, tx_count = future.result(); ...
\* result() waits for the future and re-raises the exception of the call.
Collect ==
  /\ UNCHANGED out_of_order
  /\ UNCHANGED last_rpc
  /\ pc = "collect"
  /\ j <= Len(CurBatch)
  /\ LET b == CurBatch[j]
     IN /\ task[b].st \in {"done", "failed"}
        /\ collected' = collected \cup {b}
        /\ IF task[b].st = "done"
           THEN /\ batch_trades' = batch_trades \o task[b].trades
                /\ total_txs' = total_txs + task[b].tx_count
                /\ j' = j + 1
                /\ UNCHANGED <<pc, error>>
           ELSE /\ pc' = "unwind"
                /\ error' = <<[exc |-> task[b].rpc.last_error, block |-> b]>>
                /\ UNCHANGED <<batch_trades, total_txs, j>>
  /\ UNCHANGED <<max_rps, chain, start_block, end_block, max_blocks, i, task,
                 main_call, total_trades, completed, delivered, faults, batches,
                 processed>>
  /\ UNCHANGED <<blkVars, fltVars, monVars, cliVars, decVars, emVars, idVars>>

\* EndBatch, except that on_trades is not called.
EndBatchNoDeliver ==
  /\ pc = "collect"
  /\ j > Len(CurBatch)
  /\ completed' = completed + Len(CurBatch)
  /\ total_trades' = total_trades + Len(batch_trades)
  /\ i' = i + batch_size
  /\ pc' = "loop"
  /\ UNCHANGED <<max_rps, chain, start_block, end_block, max_blocks, j, task,
                 main_call, batch_trades, total_txs, delivered, error, faults,
                 last_rpc, batches, processed, collected, out_of_order>>
  /\ UNCHANGED <<blkVars, fltVars, monVars, cliVars, decVars, emVars, idVars>>

\* EndBatch, except that on_trades is called for every batch, with an empty
\* list when the batch has no trades.
EndBatchAlwaysDeliver ==
  /\ pc = "collect"
  /\ j > Len(CurBatch)
  /\ completed' = completed + Len(CurBatch)
  /\ total_trades' = total_trades + Len(batch_trades)
  /\ delivered' = Append(delivered, batch_trades)
  /\ i' = i + batch_size
  /\ pc' = "loop"
  /\ UNCHANGED <<max_rps, chain, start_block, end_block, max_blocks, j, task,
                 main_call, batch_trades, total_txs, error, faults,
                 last_rpc, batches, processed, collected, out_of_order>>
  /\ UNCHANGED <<blkVars, fltVars, monVars, cliVars, decVars, emVars, idVars>>

\* the rest of the loop body: counters, on_trades(batch_trades), next i
EndBatch ==
  /\ UNCHANGED out_of_order
  /\ UNCHANGED last_rpc
  /\ pc = "collect"
  /\ j > Len(CurBatch)
  /\ completed' = completed + Len(CurBatch)
  /\ IF batch_trades # <<>>
     THEN /\ total_trades' = total_trades + Len(batch_trades)
          /\ delivered' = Append(delivered, batch_trades)
     ELSE UNCHANGED <<total_trades, delivered>>
  /\ i' = i + batch_size
  /\ pc' = "loop"
  /\ UNCHANGED <<max_rps, chain, start_block, end_block, max_blocks, j, task,
                 main_call, batch_trades, total_txs, error, faults, batches,
                 processed, collected>>
  /\ UNCHANGED <<blkVars, fltVars, monVars, cliVars, decVars, emVars, idVars>>

\* the loop is exhausted: the with block is left, download() returns
Finish ==
  /\ UNCHANGED out_of_order
  /\ UNCHANGED last_rpc
  /\ pc = "loop"
  /\ i >= total_blocks
  /\ pc' = "done"
  /\ UNCHANGED <<max_rps, chain, start_block, end_block, max_blocks, i, j, task,
                 main_call, batch_trades, total_txs, total_trades, completed,
                 delivered, error, faults, batches, processed, collected>>
  /\ UNCHANGED <<blkVars, fltVars, monVars, cliVars, decVars, emVars, idVars>>

\* Unwind, except that the executor is shut down without waiting
\* (shutdown(wait=False)): download() raises while work items still run.
UnwindNoWait ==
  /\ pc = "unwind"
  /\ pc' = "raised"
  /\ UNCHANGED <<max_rps, chain, start_block, end_block, max_blocks, i, j, task,
                 main_call, batch_trades, total_txs, total_trades, completed,
                 delivered, error, faults, last_rpc, batches, processed,
                 collected, out_of_order>>
  /\ UNCHANGED <<blkVars, fltVars, monVars, cliVars, decVars, emVars, idVars>>

\* the exception leaves the with block: ThreadPoolExecutor.__exit__ runs
\* shutdown(wait=True), which returns when every submitted work item has
\* run; then download() raises.
Unwind ==
  /\ UNCHANGED out_of_order
  /\ UNCHANGED last_rpc
  /\ pc = "unwind"
  /\ \A b \in Blocks : task[b].st \notin {"queued", "running"}
  /\ pc' = "raised"
  /\ UNCHANGED <<max_rps, chain, start_block, end_block, max_blocks, i, j, task,
                 main_call, batch_trades, total_txs, total_trades, completed,
                 delivered, error, faults, batches, processed, collected>>
  /\ UNCHANGED <<blkVars, fltVars, monVars, cliVars, decVars, emVars, idVars>>

\* _download whose close() follows download() without a finally: it is
\* skipped when download() raises
CliCloseOnReturnOnly ==
  /\ cli_pc = "try"
  /\ pc \in {"done", "raised"}
  /\ session' = IF pc = "done" THEN "closed" ELSE session
  /\ cli_pc' = IF pc = "done" THEN "returned" ELSE "raised"
  /\ UNCHANGED cli_args
  /\ UNCHANGED <<blkVars, dlVars, fltVars, monVars, decVars, emVars, idVars>>

\* _download: download() has returned or raised; the finally block runs
\* downloader.close(), then _download returns or raises
CliFinally ==
  /\ cli_pc = "try"
  /\ pc \in {"done", "raised"}
  /\ session' = "closed"
  /\ cli_pc' = IF pc = "done" THEN "returned" ELSE "raised"
  /\ UNCHANGED cli_args
  /\ UNCHANGED <<blkVars, dlVars, fltVars, monVars, decVars, emVars, idVars>>

(***************************************************************************)
(* The downloader specification.                                           *)
(***************************************************************************)
\* the arguments download() is called with
StartArgs == {<<>>, <<1>>}
EndArgs == {<<>>, <<MaxBlock>>, <<0>>}
MaxBlocksArgs == {1, 1000}
\* max_rps the TradeDownloader is constructed with
RpsArgs == {1, 2}

DlInit(rps, c) ==
  /\ max_rps = rps
  /\ chain = c
  /\ pc = "idle"
  /\ start_block = <<>>
  /\ end_block = <<>>
  /\ max_blocks = 1000
  /\ i = 0
  /\ j = 0
  /\ task = [b \in Blocks |-> NewTask]
  /\ main_call = NoCall
  /\ batch_trades = <<>>
  /\ total_txs = 0
  /\ total_trades = 0
  /\ completed = 0
  /\ delivered = <<>>
  /\ error = <<>>
  /\ faults = 0
  /\ last_rpc = <<>>
  /\ batches = <<>>
  /\ processed = [b \in Blocks |-> 0]
  /\ collected = {}
  /\ out_of_order = FALSE

BlkIdle ==
  /\ blk_number = 0
  /\ blk_txs = <<>>
  /\ blk_receipts = <<>>
  /\ blk_wallets = <<>>
  /\ pb_result = <<>>
  /\ dl_result = <<>>

FltIdle ==
  /\ flt_wallets = <<>>
  /\ flt_orders = <<>>
  /\ flt_receipt = <<>>
  /\ flt_result = <<>>

\* TradeMonitor.__init__, PolygonClient.__init__
MonIdle ==
  /\ mon_pc = "idle"
  /\ running = FALSE
  /\ ws = "none"
  /\ conn = "none"
  /\ conn_close = ""
  /\ http_session = "none"
  /\ call_closed = FALSE
  /\ mon_wallets = <<>>
  /\ inbox = <<>>
  /\ cur = <<>>
  /\ cur_call = ""
  /\ stop_pc = "idle"
  /\ mon_error = <<>>
  /\ trace = <<>>
  /\ announced = <<>>
  /\ sent = 0
  /\ sub_sent = FALSE
  /\ confirmed = FALSE
  /\ stop_calls = <<>>
  /\ mon_faults = 0
  /\ mon_last_rpc = <<>>

\* _download: TradeDownloader(max_rps=max_rps) has opened the session
CliIdle ==
  /\ session = "open"
  /\ cli_pc = "init"
  /\ cli_args = <<>>

DecIdle ==
  /\ dec_input = InEmpty
  /\ dec_result = <<>>

\* TradeMonitor.__init__: no observer is registered
NoCallbacks == [transaction |-> <<>>, error |-> <<>>, close |-> <<>>]

EmIdle ==
  /\ callbacks = NoCallbacks
  /\ em_blocks = <<>>
  /\ em_log = <<>>
  /\ em_tasks = <<>>

\* the threads that call _next_id: the workers of the pool
MaxThreads == 2
Threads == 1..MaxThreads

\* TradeDownloader.__init__: self._request_id = 0
IdIdle ==
  /\ request_id = 0
  /\ id_pc = [t \in Threads |-> "idle"]
  /\ id_tmp = [t \in Threads |-> 0]
  /\ issued = <<>>

Init ==
  /\ \E rps \in RpsArgs, c \in Chains : DlInit(rps, c)
  /\ BlkIdle
  /\ FltIdle
  /\ MonIdle
  /\ CliIdle
  /\ DecIdle
  /\ EmIdle
  /\ IdIdle

Next ==
  \/ \E sb \in StartArgs, eb \in EndArgs, mb \in MaxBlocksArgs :
       /\ sb # <<>> => mb = 1000
       /\ Download(sb, eb, mb)
  \/ \E o \in Outcomes : HeadAttempt(o)
  \/ SubmitBatch
  \/ \E b \in Blocks : WorkerStart(b)
  \/ \E b \in Blocks, o \in Outcomes : WorkerAttempt(b, o)
  \/ Collect
  \/ EndBatch
  \/ Finish
  \/ Unwind
  \/ CliFinally

Spec == Init /\ [][Next]_vars

(***************************************************************************)
(* The block-level specification: one block (its transactions, its         *)
(* receipts) is drawn, and each of the two per-block procedures is run on  *)
(* it: BlockProcessor.process_block with a WalletFilter(blk_wallets), and  *)
(* TradeDownloader._process_block.                                         *)
(***************************************************************************)
\* a transaction's receipt: none, one without status, one with a status
ReceiptChoices ==
  {[present |-> FALSE, has_status |-> FALSE, status |-> <<>>],
   [present |-> TRUE, has_status |-> FALSE, status |-> <<>>]}
  \cup {[present |-> TRUE, has_status |-> TRUE, status |-> st] : st \in SampleStatuses}

MakeTxs(ins) == [k \in DOMAIN ins |-> Tx(TxHash(k), ins[k])]

MakeReceipts(rs) ==
  Flatten([k \in DOMAIN rs |->
     IF ~rs[k].present THEN <<>>
     ELSE IF rs[k].has_status THEN <<Receipt(TxHash(k), rs[k].status)>>
     ELSE <<ReceiptNoStatus(TxHash(k))>>])

BlkInit ==
  /\ blk_number = 100
  /\ \E n \in 0..MaxTxs :
       \E ins \in [1..n -> SampleInputs], rs \in [1..n -> ReceiptChoices], rev \in BOOLEAN :
         /\ blk_txs = MakeTxs(ins)
         /\ blk_receipts = IF rev THEN Reverse(MakeReceipts(rs)) ELSE MakeReceipts(rs)
  /\ blk_wallets \in SampleWallets
  /\ pb_result = <<>>
  /\ dl_result = <<>>

\* BlockProcessor(client, decoder, WalletFilter(blk_wallets)).process_block
RunProcessBlock ==
  /\ pb_result = <<>>
  /\ pb_result' = <<ProcessBlock(WalletSet(blk_wallets), blk_number, blk_txs, blk_receipts)>>
  /\ UNCHANGED <<blk_number, blk_txs, blk_receipts, blk_wallets, dl_result>>
  /\ UNCHANGED <<dlVars, fltVars, monVars, cliVars, decVars, emVars, idVars>>

\* TradeDownloader._process_block
RunDlProcessBlock ==
  /\ dl_result = <<>>
  /\ dl_result' = <<DlProcessBlock(blk_number, blk_txs, blk_receipts)>>
  /\ UNCHANGED <<blk_number, blk_txs, blk_receipts, blk_wallets, pb_result>>
  /\ UNCHANGED <<dlVars, fltVars, monVars, cliVars, decVars, emVars, idVars>>

InitBlock ==
  /\ BlkInit /\ DlInit(1, 0) /\ FltIdle /\ MonIdle
  /\ CliIdle /\ DecIdle /\ EmIdle /\ IdIdle

NextBlock == RunProcessBlock \/ RunDlProcessBlock

SpecBlock == InitBlock /\ [][NextBlock]_vars

(***************************************************************************)
(* Properties of the per-block procedures (under SpecBlock).               *)
(***************************************************************************)
\* the receipt status is success: the text is a number and the number is 1
StatusIsSuccess(r) ==
  /\ r.has_status
  /\ ~PyInt16(r.status).err
  /\ PyInt16(r.status).val = 1

TradesWithHash(trades, h) == {m \in DOMAIN trades : trades[m].transaction_hash = h}

\* C9: for every block and receipt set, _process_block of the downloader
\* yields the same trade records, in the same order, as process_block in
\* track-all mode (empty wallet list), with the same decision on which
\* receipt statuses are success.  Stated here for the blocks on which
\* process_block returns a list (where it raises, _process_block returns a
\* list all the same, which is a difference too).
C9_DownloaderMatchesBlockProcessor ==
  (pb_result # <<>> /\ dl_result # <<>> /\ blk_wallets = <<>> /\ ~pb_result[1].raised)
    => dl_result[1].trades = pb_result[1].trades

\* C10: process_block yields at most one TradeData per transaction, and
\* none for a transaction whose receipt is missing or whose receipt status
\* is not success, for every decoded order list and every wallet set.
C10_AtMostOneTradePerSuccessfulTx ==
  pb_result # <<>> =>
    LET out == pb_result[1].trades
    IN /\ \A k \in DOMAIN blk_txs :
            Cardinality(TradesWithHash(out, blk_txs[k].hash)) <= 1
       /\ \A m \in DOMAIN out :
            /\ out[m].block_number = blk_number
            /\ \E k \in DOMAIN blk_txs : blk_txs[k].hash = out[m].transaction_hash
            /\ \E r \in DOMAIN blk_receipts :
                 /\ blk_receipts[r].transactionHash = out[m].transaction_hash
                 /\ StatusIsSuccess(blk_receipts[r])

\* a block of two transactions that both decode to orders, the first with a
\* successful receipt and the second with a failed one: one trade comes out
C10_Witness ==
  /\ pb_result # <<>>
  /\ Len(blk_txs) = 2
  /\ \A k \in 1..2 : Decode(blk_txs[k].input).orders # <<>>
  /\ Len(blk_receipts) = 2
  /\ \E r \in 1..2 : /\ blk_receipts[r].transactionHash = blk_txs[2].hash
                     /\ ~StatusIsSuccess(blk_receipts[r])
  /\ ~pb_result[1].raised
  /\ Len(pb_result[1].trades) = 1
  /\ pb_result[1].trades[1].transaction_hash = blk_txs[1].hash

(***************************************************************************)
(* Properties of download() (under Spec).                                  *)
(***************************************************************************)
Resolved == pc \notin {"idle", "head"} /\ start_block # <<>> /\ end_block # <<>>

\* _process_block has started on block b (only then are RPC calls made for b)
Started(b) == task[b].st \in {"running", "done", "failed"}

BlocksOf(batch) == {batch[k] : k \in DOMAIN batch}

\* some _rpc_call has failed on its last attempt
Exhausted ==
  \/ main_call.status = "raised"
  \/ \E b \in Blocks : task[b].st = "failed"

\* the trades of blocks lo..hi of chain c, in block order
RangeTrades(c, lo, hi) ==
  Flatten([k \in 1..(hi - lo + 1) |->
    DlProcessBlock(lo + k - 1, ChainBlock(c, lo + k - 1).transactions,
                   ChainBlock(c, lo + k - 1).receipts).trades])

\* what on_trades receives for blocks s..e cut into batches of `size`, when
\* no RPC call fails: one list per batch that has trades
RECURSIVE ExpectedFrom(_, _, _, _)
ExpectedFrom(c, s, e, size) ==
  IF s > e THEN <<>>
  ELSE LET hi == Min(s + size - 1, e)
           tr == RangeTrades(c, s, hi)
       IN (IF tr = <<>> THEN <<>> ELSE <<tr>>) \o ExpectedFrom(c, hi + 1, e, size)

\* C1: no worker starts on a block of batch n+1 (so no RPC call is made for
\* it) until the result of every block of batch n has been collected by the
\* thread that runs download().
C1_NextBatchWaitsForCollection ==
  /\ \A b \in Blocks : Started(b) => \E n \in DOMAIN batches : b \in BlocksOf(batches[n])
  /\ \A n \in DOMAIN batches : \A m \in DOMAIN batches :
       (n < m /\ \E b \in BlocksOf(batches[m]) : Started(b))
         => BlocksOf(batches[n]) \subseteq collected
  /\ last_rpc # <<>> /\ last_rpc[1].caller >= 0 => Started(last_rpc[1].caller)

\* a block of the second batch is being processed by one of two workers
C1_Witness ==
  /\ max_rps = 2
  /\ Len(batches) = 2
  /\ out_of_order
  /\ \E b \in BlocksOf(batches[2]) : task[b].st = "running" /\ task[b].rpc.attempt = 2

\* C2: on_trades gets the trades of a batch only after _process_block has
\* finished for every block of that batch, and every block number in a
\* later on_trades call is greater than every block number in an earlier one.
C2_DeliveryAfterBatchInAscendingBatches ==
  /\ \A k \in DOMAIN delivered : \A m \in DOMAIN delivered[k] :
       \E n \in DOMAIN batches :
         /\ delivered[k][m].block_number \in BlocksOf(batches[n])
         /\ \A b \in BlocksOf(batches[n]) : task[b].st = "done"
  /\ \A k \in DOMAIN delivered : \A l \in DOMAIN delivered :
       k < l => \A m \in DOMAIN delivered[k] : \A n \in DOMAIN delivered[l] :
                  delivered[k][m].block_number < delivered[l][n].block_number

\* on_trades has been called for three batches
C2_Witness ==
  /\ Len(delivered) = 3
  /\ pc = "done"

\* C3: within every list given to on_trades and across all lists of one
\* download, the records are in non-decreasing block_number order, whatever
\* order the workers finish in.
C3_TradesInBlockOrder ==
  LET all == Flatten(delivered)
  IN \A m \in DOMAIN all : \A n \in DOMAIN all :
       m < n => all[m].block_number <= all[n].block_number

\* a single batch whose work items did not end in submission order, and
\* whose list holds trades of more than one block
C3_Witness ==
  /\ out_of_order
  /\ Len(batches) = 1
  /\ Len(delivered) = 1
  /\ \E m \in DOMAIN delivered[1] : \E n \in DOMAIN delivered[1] :
       delivered[1][m].block_number # delivered[1][n].block_number

\* C4: the inclusive range [start_block, end_block] is cut into consecutive
\* batches of exactly 2 * max_rps blocks (only the last may be shorter), and
\* when download() returns every block of the range has been processed
\* exactly once.
C4_BatchesPartitionRange ==
  /\ \A b \in Blocks : processed[b] <= 1
  /\ Resolved =>
       LET s == start_block[1]
           e == end_block[1]
           sub == Flatten(batches)
       IN /\ \A k \in DOMAIN sub : sub[k] = s + k - 1 /\ sub[k] <= e
          /\ \A n \in DOMAIN batches :
               \/ Len(batches[n]) = 2 * max_rps
               \/ /\ n = Len(batches)
                  /\ Len(batches[n]) \in 1..(2 * max_rps)
                  /\ batches[n][Len(batches[n])] = e
          /\ \A b \in Blocks : (b < s \/ b > e) => processed[b] = 0
          /\ pc = "done" =>
               /\ Len(sub) = (IF e >= s THEN e - s + 1 ELSE 0)
               /\ \A b \in Blocks : (s <= b /\ b <= e) =>
                    /\ processed[b] = 1
                    /\ task[b].st = "done"
                    /\ b \in collected

\* a finished download of three batches, the last one shorter
C4_Witness ==
  /\ pc = "done"
  /\ Len(batches) = 3
  /\ Len(batches[3]) < Len(batches[1])

\* the _rpc_call frames that exist
Frames == {f \in {main_call} \cup {task[b].rpc : b \in Blocks} : f.status # "none"}

\* C5: _rpc_call makes at most RPC_MAX_RETRIES attempts; HTTP 429, another
\* non-200 status, a transport error, a timeout and a JSON-RPC error payload
\* are handled alike: after failed attempt k < RPC_MAX_RETRIES it sleeps
\* RPC_RETRY_DELAY_SECONDS * 2^(k-1) and tries again, after the failed last
\* attempt it raises, and the first successful attempt returns at once.
C5_BoundedRetryWithBackoff ==
  /\ \A f \in Frames :
       /\ f.attempt \in 1..RPC_MAX_RETRIES
       /\ Len(f.slept) = f.attempt - 1
       /\ \A k \in DOMAIN f.slept : f.slept[k] = RPC_RETRY_DELAY_SECONDS * Pow2(k - 1)
       /\ f.status = "raised" => f.attempt = RPC_MAX_RETRIES /\ f.last_error # ""
  /\ last_rpc # <<>> =>
       LET ev == last_rpc[1]
           f == IF ev.caller = -1 THEN main_call ELSE task[ev.caller].rpc
       IN /\ ev.attempt \in 1..RPC_MAX_RETRIES
          /\ ev.outcome = "ok" =>
               /\ ev.delay = 0
               /\ IF ev.caller = -1 THEN main_call = NoCall /\ pc # "head"
                  ELSE IF ev.method = "eth_getBlockByNumber"
                  THEN /\ task[ev.caller].st = "running"
                       /\ task[ev.caller].call = "eth_getBlockReceipts"
                       /\ f = RpcCallInit
                  ELSE task[ev.caller].st = "done"
          /\ (ev.outcome \in Failures /\ ev.attempt < RPC_MAX_RETRIES) =>
               /\ ev.delay = RPC_RETRY_DELAY_SECONDS * Pow2(ev.attempt - 1)
               /\ f.status = "running"
               /\ f.attempt = ev.attempt + 1
               /\ f.last_error = ExcOf(ev.outcome)
               /\ ev.caller >= 0 => task[ev.caller].call = ev.method
          /\ (ev.outcome \in Failures /\ ev.attempt = RPC_MAX_RETRIES) =>
               /\ ev.delay = 0
               /\ f.status = "raised"
               /\ f.last_error = ExcOf(ev.outcome)

\* a call that was rate-limited on its third attempt, after sleeping 1 s and
\* 2 s, and raised
C5_Witness ==
  /\ last_rpc # <<>>
  /\ last_rpc[1].outcome = "http429"
  /\ last_rpc[1].attempt = RPC_MAX_RETRIES
  /\ last_rpc[1].caller >= 0
  /\ task[last_rpc[1].caller].st = "failed"
  /\ task[last_rpc[1].caller].rpc.slept = <<1, 2>>

\* C6: when calls fail fewer than RPC_MAX_RETRIES times in a row and then
\* succeed, download() completes normally, delivers the trades of a run
\* without failures, and raises nothing: it raises only when some call has
\* failed on all RPC_MAX_RETRIES attempts.
C6_RetriedCallsChangeNothing ==
  /\ pc = "done" =>
       /\ error = <<>>
       /\ ~Exhausted
       /\ delivered = ExpectedFrom(chain, start_block[1], end_block[1], 2 * max_rps)
  /\ (pc \in {"unwind", "raised"} \/ error # <<>>) =>
       \E f \in Frames : f.status = "raised" /\ f.attempt = RPC_MAX_RETRIES

\* a download that returned after its last RPC call failed twice and
\* succeeded on the third attempt, with trades delivered
C6_Witness ==
  /\ pc = "done"
  /\ delivered # <<>>
  /\ last_rpc # <<>>
  /\ last_rpc[1].attempt = 3
  /\ last_rpc[1].outcome = "ok"
  /\ faults = 2

\* C7: once an RPC call has failed on all its attempts, download() raises
\* that error: it does not return normally, no block of a later batch is
\* submitted or fetched, and on_trades is not called any more.
C7_ExhaustionAbortsDownload ==
  [][ /\ Exhausted =>
           /\ delivered' = delivered
           /\ batches' = batches
           /\ pc' # "done"
           /\ \A b \in Blocks : task[b].st = "new" => task'[b].st = "new"
      /\ pc' = "raised" =>
           /\ Exhausted'
           /\ error' # <<>>
           /\ \E f \in Frames' : f.status = "raised" /\ f.last_error = error'[1].exc
    ]_vars

\* download() has raised while blocks of the range were never submitted
C7_Witness ==
  /\ pc = "raised"
  /\ Resolved
  /\ \E b \in Blocks : start_block[1] <= b /\ b <= end_block[1] /\ task[b].st = "new"
  /\ \E b \in Blocks : task[b].st = "failed"

MaxOrders == 2

\* DecodedOrder values
SampleOrders == {ParseOrder(OrdA), ParseOrder(OrdB), ParseOrder(OrdC), ParseOrder(OrdD)}

OrderLists == UNION {[1..n -> SampleOrders] : n \in 0..MaxOrders}

\* receipt: Optional[dict]
SampleReceipts ==
  { IF ~c.present THEN <<>>
    ELSE IF c.has_status THEN <<Receipt("0xh1", c.status)>>
    ELSE <<ReceiptNoStatus("0xh1")>> : c \in ReceiptChoices }

FltInit ==
  /\ flt_wallets \in SampleWallets
  /\ flt_orders \in OrderLists
  /\ flt_receipt \in SampleReceipts
  /\ flt_result = <<>>

\* WalletFilter(flt_wallets).filter(flt_orders, flt_receipt)
RunFilter ==
  /\ flt_result = <<>>
  /\ flt_result' = <<Filter(WalletSet(flt_wallets), flt_orders, flt_receipt)>>
  /\ UNCHANGED <<flt_wallets, flt_orders, flt_receipt>>
  /\ UNCHANGED <<blkVars, dlVars, monVars, cliVars, decVars, emVars, idVars>>

InitFilter ==
  /\ FltInit /\ BlkIdle /\ DlInit(1, 0) /\ MonIdle
  /\ CliIdle /\ DecIdle /\ EmIdle /\ IdIdle

NextFilter == RunFilter

SpecFilter == InitFilter /\ [][NextFilter]_vars

(***************************************************************************)
(* Properties of WalletFilter.filter (under SpecFilter).                   *)
(***************************************************************************)
\* the receipt is there and its status is success
ReceiptIsSuccess(receipt) == receipt # <<>> /\ StatusIsSuccess(receipt[1])

\* address a and address b are the same up to letter case
SameAddress(a, b) == Lower(a) = Lower(b)

\* the positions of the orders whose maker is one of the wallets
MakerHits(orders, wallets) ==
  {k \in DOMAIN orders : \E w \in DOMAIN wallets : SameAddress(wallets[w], orders[k].maker)}

\* C11: filter returns None, as a value and not as an exception, whenever
\* the receipt is absent, or its status is absent, or its status is not
\* success, whatever the orders and the wallet set are.
C11_NoneOnUnsuccessfulReceipt ==
  (flt_result # <<>> /\ ~ReceiptIsSuccess(flt_receipt))
    => (~flt_result[1].raised /\ flt_result[1].order = <<>>)

\* C12: with a non-empty wallet set and a successful receipt, filter returns
\* the first order, in list order, whose maker is in the set when compared
\* without regard to letter case, and None when there is no such order.
C12_FirstOrderOfTrackedMaker ==
  (flt_result # <<>> /\ flt_wallets # <<>> /\ ReceiptIsSuccess(flt_receipt))
    => LET hits == MakerHits(flt_orders, flt_wallets)
       IN /\ ~flt_result[1].raised
          /\ hits = {} => flt_result[1].order = <<>>
          /\ hits # {} =>
               \E k \in hits : /\ \A k2 \in hits : k <= k2
                               /\ flt_result[1].order = <<flt_orders[k]>>

\* two different orders of tracked makers, the first written in another
\* letter case than the wallet: the first is returned
C12_Witness ==
  /\ flt_result # <<>>
  /\ flt_wallets = <<"0xBB">>
  /\ ReceiptIsSuccess(flt_receipt)
  /\ Len(flt_orders) = 2
  /\ MakerHits(flt_orders, flt_wallets) = {2}
  /\ flt_orders[2].maker = "0xbb"
  /\ flt_result[1].order = <<flt_orders[2]>>

\* C13: in track-all mode (empty wallet list), with a successful receipt
\* and a non-empty order list, filter returns order 0, the taker order, and
\* never a later (maker) order.
C13_TrackAllReturnsTakerOrder ==
  (flt_result # <<>> /\ flt_wallets = <<>> /\ ReceiptIsSuccess(flt_receipt)
     /\ flt_orders # <<>>)
    => /\ ~flt_result[1].raised
       /\ flt_result[1].order = <<flt_orders[1]>>

\* track-all, two different orders: the first came back
C13_Witness ==
  /\ flt_result # <<>>
  /\ flt_wallets = <<>>
  /\ ReceiptIsSuccess(flt_receipt)
  /\ Len(flt_orders) = 2
  /\ flt_orders[1] # flt_orders[2]
  /\ flt_result[1].order = <<flt_orders[1]>>

(***************************************************************************)
(* Properties of process_block (under SpecBlock), continued.               *)
(***************************************************************************)
\* the position in the block of the transaction with hash h
TxIndex(h) == CHOOSE k \in DOMAIN blk_txs : blk_txs[k].hash = h

\* the receipts of the block with hash h
ReceiptsOf(h) == {r \in DOMAIN blk_receipts : blk_receipts[r].transactionHash = h}

\* transaction k cannot give a record: it is no matchOrders call, or it has
\* no receipt, or its receipt has a status that reads as a number other
\* than 1, or none of its makers is tracked
NoMatch(k) ==
  LET orders == Decode(blk_txs[k].input).orders
      rs == ReceiptsOf(blk_txs[k].hash)
  IN \/ orders = <<>>
     \/ rs = {}
     \/ \A r \in rs : /\ blk_receipts[r].has_status
                      /\ ~PyInt16(blk_receipts[r].status).err
                      /\ PyInt16(blk_receipts[r].status).val # 1
     \/ /\ blk_wallets # <<>>
        /\ \A r \in rs : StatusIsSuccess(blk_receipts[r])
        /\ MakerHits(orders[1], blk_wallets) = {}

CLIENT_RPC_RETRY_DELAY_SECONDS == 1

\* messages the server sends after the confirmation
MaxMsgs == 3
\* RPC attempts of the client that fail during one session
MaxMonFaults == 2
\* calls of stop()
MaxStops == 2

\* the blocks the server announces
LiveBlocks == {1, 2, 3}

\* what the HTTP endpoint returns for block b: blocks 1 and 2 are those of
\* chain 0, block 3 holds one matchOrders call whose receipt has no status
LiveBlock(b) ==
  IF b = 3
  THEN [transactions |-> <<Tx(BlockTxHash(b, 1), InTakerOnly)>>,
        receipts |-> <<ReceiptNoStatus(BlockTxHash(b, 1))>>]
  ELSE ChainBlock(0, b)

\* a message on the websocket: a newHeads notification, a message without
\* "params", a message that json.loads or the subscripting cannot read
HeadMsg(b) == [kind |-> "head", number |-> Hex(b)]
OtherMsg == [kind |-> "other", number |-> <<>>]
MalformedMsg == [kind |-> "malformed", number |-> <<>>]
MonMessages == {HeadMsg(b) : b \in LiveBlocks} \cup {OtherMsg, MalformedMsg}

\* target_wallets given to start()
MonWallets == { <<>>, <<"0xBB">> }

\* one entry of the trace: an emit(ev, ...) call, or "begin" / "end" of the
\* _on_block call for notification n
Event(ev, n, trade, text) == [ev |-> ev, n |-> n, trade |-> trade, text |-> text]

HeadCount(msgs) == Cardinality({k \in DOMAIN msgs : msgs[k].kind = "head"})

\* what one POST of PolygonClient._rpc_call can end in: a result, a JSON-RPC
\* error payload, an aiohttp.ClientError, another exception
MonOutcomes == {"ok", "rpc_error", "client_error", "other_exc"}

MonExcOf(outcome) ==
  CASE outcome = "rpc_error" -> "RPC error"
    [] outcome = "client_error" -> "ClientError"
    [] OTHER -> "TimeoutError"

\* _rpc_call that gives up on an error payload or a ClientError
MonRpcAttemptRaiseOnError(outcome) ==
  IF outcome = "ok" THEN "return" ELSE "raise"

\* one iteration of the while loop of PolygonClient._rpc_call
MonRpcAttempt(outcome) ==
  CASE outcome = "ok" -> "return"
    [] outcome \in {"rpc_error", "client_error"} -> "retry"
    [] OTHER -> "raise"

\* _on_block without its try / except
OnBlockNoCatch(n, r) ==
  IF r.raised
  THEN [events |-> <<>>, raised |-> TRUE, exc |-> r.exc]
  ELSE [events |-> [k \in DOMAIN r.trades |-> Event("transaction", n, <<r.trades[k]>>, "")],
        raised |-> FALSE, exc |-> ""]

\* TradeMonitor._on_block for notification n, r being what process_block
\* gave: the emit calls, and the exception that leaves _on_block (none)
OnBlock(n, r) ==
  IF r.raised
  THEN [events |-> <<Event("error", n, <<>>, r.exc)>>, raised |-> FALSE, exc |-> ""]
  ELSE [events |-> [k \in DOMAIN r.trades |-> Event("transaction", n, <<r.trades[k]>>, "")],
        raised |-> FALSE, exc |-> ""]

\* the except block of start(): emit("error", e); emit("close", {...})
StartExcept(exc) ==
  <<Event("error", 0, <<>>, exc), Event("close", 0, <<>>, exc)>>

\* start() is called
Start(wallets) ==
  /\ mon_pc = "idle"
  /\ running' = TRUE
  /\ mon_wallets' = wallets
  /\ mon_pc' = "connecting"
  /\ UNCHANGED <<ws, conn, conn_close, http_session, call_closed, inbox, cur,
                 cur_call, stop_pc, mon_error, trace, announced, sent, sub_sent,
                 confirmed, stop_calls, mon_faults, mon_last_rpc>>
  /\ UNCHANGED <<blkVars, dlVars, fltVars, cliVars, decVars, emVars, idVars>>

\* ConnectDone, except that the connect step stands inside the try block
\* of start(): its failure is caught and reported as "error" and "close".
ConnectDoneCaught(ok) ==
  /\ mon_pc = "connecting"
  /\ IF ok
     THEN /\ ws' = "set"
          /\ conn' = "open"
          /\ mon_pc' = "sending"
          /\ UNCHANGED trace
     ELSE /\ mon_pc' = "done"
          /\ trace' = trace \o StartExcept("ConnectionError")
          /\ UNCHANGED <<ws, conn>>
  /\ UNCHANGED <<running, conn_close, http_session, call_closed, mon_wallets, inbox,
                 cur, cur_call, stop_pc, mon_error, announced, sent, sub_sent,
                 confirmed, stop_calls, mon_faults, mon_last_rpc>>
  /\ UNCHANGED <<blkVars, dlVars, fltVars, cliVars, decVars, emVars, idVars>>

\* await self.client.connect() ends; on success subscribe_blocks finds
\* self._ws set and sends the eth_subscribe request
ConnectDone(ok) ==
  /\ mon_pc = "connecting"
  /\ IF ok
     THEN /\ ws' = "set"
          /\ conn' = "open"
          /\ mon_pc' = "sending"
          /\ UNCHANGED mon_error
     ELSE /\ mon_pc' = "raised"
          /\ mon_error' = <<"ConnectionError">>
          /\ UNCHANGED <<ws, conn>>
  /\ UNCHANGED <<running, conn_close, http_session, call_closed, mon_wallets, inbox,
                 cur, cur_call, stop_pc, trace, announced, sent, sub_sent,
                 confirmed, stop_calls, mon_faults, mon_last_rpc>>
  /\ UNCHANGED <<blkVars, dlVars, fltVars, cliVars, decVars, emVars, idVars>>

\* await self._ws.send(...) ends, then self._ws.recv() is called
SendDone ==
  /\ mon_pc = "sending"
  /\ \/ /\ conn = "open"
        /\ sub_sent' = TRUE
        /\ mon_pc' = "confirming"
        /\ UNCHANGED trace
     \/ /\ conn # "open"
        /\ UNCHANGED sub_sent
        /\ trace' = trace \o StartExcept("ConnectionClosed")
        /\ mon_pc' = "done"
     \/ /\ conn # "open"
        /\ sub_sent' = TRUE
        /\ IF ws = "none"
           THEN /\ trace' = trace \o StartExcept("AttributeError")
                /\ mon_pc' = "done"
           ELSE /\ mon_pc' = "confirming"
                /\ UNCHANGED trace
  /\ UNCHANGED <<running, ws, conn, conn_close, http_session, call_closed,
                 mon_wallets, inbox, cur, cur_call, stop_pc, mon_error, announced,
                 sent, confirmed, stop_calls, mon_faults, mon_last_rpc>>
  /\ UNCHANGED <<blkVars, dlVars, fltVars, cliVars, decVars, emVars, idVars>>

\* the step taken instead of Confirm when the loop is entered right after
\* the send, without recv()
ConfirmSkipped ==
  /\ mon_pc = "confirming"
  /\ mon_pc' = "listening"
  /\ UNCHANGED <<running, ws, conn, conn_close, http_session, call_closed,
                 mon_wallets, inbox, cur, cur_call, stop_pc, mon_error, trace,
                 announced, sent, sub_sent, confirmed, stop_calls, mon_faults,
                 mon_last_rpc>>
  /\ UNCHANGED <<blkVars, dlVars, fltVars, cliVars, decVars, emVars, idVars>>

\* await self._ws.recv() ends: the subscription confirmation, or the
\* connection was closed
Confirm ==
  /\ mon_pc = "confirming"
  /\ IF conn = "open"
     THEN /\ confirmed' = TRUE
          /\ mon_pc' = "listening"
          /\ UNCHANGED trace
     ELSE /\ trace' = trace \o StartExcept("ConnectionClosed")
          /\ mon_pc' = "done"
          /\ UNCHANGED confirmed
  /\ UNCHANGED <<running, ws, conn, conn_close, http_session, call_closed,
                 mon_wallets, inbox, cur, cur_call, stop_pc, mon_error, announced,
                 sent, sub_sent, stop_calls, mon_faults, mon_last_rpc>>
  /\ UNCHANGED <<blkVars, dlVars, fltVars, cliVars, decVars, emVars, idVars>>

\* the server sends a message on the subscription
ServerSend(msg) ==
  /\ conn = "open"
  /\ sub_sent
  /\ mon_pc \in {"listening", "rpc", "sleep"}
  /\ sent < MaxMsgs
  /\ sent' = sent + 1
  /\ inbox' = Append(inbox, msg)
  /\ announced' = IF msg.kind = "head"
                  THEN Append(announced, PyInt16(msg.number).val) ELSE announced
  /\ UNCHANGED <<mon_pc, running, ws, conn, conn_close, http_session, call_closed,
                 mon_wallets, cur, cur_call, stop_pc, mon_error, trace, sub_sent,
                 confirmed, stop_calls, mon_faults, mon_last_rpc>>
  /\ UNCHANGED <<blkVars, dlVars, fltVars, cliVars, decVars, emVars, idVars>>

\* the connection ends from outside: closed by the server, or dropped
ConnLost(cause) ==
  /\ conn = "open"
  /\ mon_pc \in {"sending", "confirming", "listening", "rpc", "sleep"}
  /\ conn' = "closed"
  /\ conn_close' = cause
  /\ UNCHANGED <<mon_pc, running, ws, http_session, call_closed, mon_wallets, inbox,
                 cur, cur_call, stop_pc, mon_error, trace, announced, sent, sub_sent,
                 confirmed, stop_calls, mon_faults, mon_last_rpc>>
  /\ UNCHANGED <<blkVars, dlVars, fltVars, cliVars, decVars, emVars, idVars>>

\* _on_block has what process_block gave (r): its emit calls, its return to
\* the async for loop, or (no try block) the exception reaching start()
OnBlockDone(r) ==
  LET ob == OnBlock(cur[1].n, r)
  IN /\ cur' = <<>>
     /\ cur_call' = ""
     /\ IF ob.raised
        THEN /\ trace' = trace \o ob.events \o StartExcept(ob.exc)
             /\ mon_pc' = "done"
        ELSE /\ trace' = trace \o ob.events \o <<Event("end", cur[1].n, <<>>, "")>>
             /\ mon_pc' = "listening"

\* a step of the loop that takes a notification while a block is being
\* processed
ReceiveWhileBusy ==
  /\ mon_pc \in {"listening", "rpc", "sleep"}
  /\ inbox # <<>>
  /\ inbox' = Tail(inbox)
  /\ LET msg == Head(inbox)
         n == Len(announced) - HeadCount(inbox) + 1
     IN CASE msg.kind = "head" ->
               /\ cur' = <<[n |-> n, block |-> PyInt16(msg.number).val]>>
               /\ trace' = Append(trace, Event("begin", n, <<>>, ""))
               /\ cur_call' = "eth_getBlockByNumber"
               /\ http_session' = "open"
               /\ call_closed' = FALSE
               /\ mon_pc' = "rpc"
          [] msg.kind = "malformed" ->
               /\ trace' = trace \o StartExcept("ProtocolError")
               /\ mon_pc' = "done"
               /\ UNCHANGED <<cur, cur_call, http_session, call_closed>>
          [] OTHER ->
               UNCHANGED <<cur, cur_call, http_session, call_closed, trace, mon_pc>>
  /\ UNCHANGED <<running, ws, conn, conn_close, mon_wallets, stop_pc, mon_error,
                 announced, sent, sub_sent, confirmed, stop_calls, mon_faults,
                 mon_last_rpc>>
  /\ UNCHANGED <<blkVars, dlVars, fltVars, cliVars, decVars, emVars, idVars>>

\* async for message in self._ws gives the next message: one without
\* "params" is passed over, a notification is handed to the callback, which
\* runs up to the first POST of process_block
Receive ==
  /\ mon_pc = "listening"
  /\ inbox # <<>>
  /\ inbox' = Tail(inbox)
  /\ LET msg == Head(inbox)
         n == Len(announced) - HeadCount(inbox) + 1
     IN CASE msg.kind = "head" ->
               /\ cur' = <<[n |-> n, block |-> PyInt16(msg.number).val]>>
               /\ trace' = Append(trace, Event("begin", n, <<>>, ""))
               /\ cur_call' = "eth_getBlockByNumber"
               /\ http_session' = "open"
               /\ call_closed' = FALSE
               /\ mon_pc' = "rpc"
          [] msg.kind = "malformed" ->
               /\ trace' = trace \o StartExcept("ProtocolError")
               /\ mon_pc' = "done"
               /\ UNCHANGED <<cur, cur_call, http_session, call_closed>>
          [] OTHER ->
               UNCHANGED <<cur, cur_call, http_session, call_closed, trace, mon_pc>>
  /\ UNCHANGED <<running, ws, conn, conn_close, mon_wallets, stop_pc, mon_error,
                 announced, sent, sub_sent, confirmed, stop_calls, mon_faults,
                 mon_last_rpc>>
  /\ UNCHANGED <<blkVars, dlVars, fltVars, cliVars, decVars, emVars, idVars>>

\* async for message in self._ws on a closed connection: the loop ends
\* (closed normally) or ConnectionClosedError is raised (dropped)
ListenEnd ==
  /\ mon_pc = "listening"
  /\ conn = "closed"
  /\ mon_pc' = "done"
  /\ trace' = IF conn_close = "drop"
              THEN trace \o StartExcept("ConnectionClosedError") ELSE trace
  /\ UNCHANGED <<running, ws, conn, conn_close, http_session, call_closed,
                 mon_wallets, inbox, cur, cur_call, stop_pc, mon_error, announced,
                 sent, sub_sent, confirmed, stop_calls, mon_faults, mon_last_rpc>>
  /\ UNCHANGED <<blkVars, dlVars, fltVars, cliVars, decVars, emVars, idVars>>

\* the POST of the _rpc_call in progress ends
RpcResponse(outcome) ==
  /\ mon_pc = "rpc"
  /\ outcome \in {"rpc_error", "client_error"} => mon_faults < MaxMonFaults
  /\ mon_faults' = IF outcome \in {"rpc_error", "client_error"}
                   THEN mon_faults + 1 ELSE mon_faults
  /\ mon_last_rpc' = <<[n |-> cur[1].n, method |-> cur_call, outcome |-> outcome,
                        seq |-> mon_faults',
                        delay |-> IF MonRpcAttempt(outcome) = "retry"
                                  THEN CLIENT_RPC_RETRY_DELAY_SECONDS ELSE 0]>>
  /\ LET a == MonRpcAttempt(outcome)
         b == cur[1].block
         blk == LiveBlock(PyInt16(Hex(b)).val)
     IN CASE a = "retry" ->
               /\ mon_pc' = "sleep"
               /\ UNCHANGED <<cur, cur_call, trace, http_session, call_closed>>
          [] a = "raise" ->
               /\ OnBlockDone([raised |-> TRUE, exc |-> MonExcOf(outcome), trades |-> <<>>])
               /\ UNCHANGED <<http_session, call_closed>>
          [] a = "return" /\ cur_call = "eth_getBlockByNumber" ->
               /\ cur_call' = "eth_getBlockReceipts"
               /\ http_session' = "open"
               /\ call_closed' = FALSE
               /\ UNCHANGED <<mon_pc, cur, trace>>
          [] OTHER ->
               /\ OnBlockDone(ProcessBlock(WalletSet(mon_wallets), b,
                                           blk.transactions, blk.receipts))
               /\ UNCHANGED <<http_session, call_closed>>
  /\ UNCHANGED <<running, ws, conn, conn_close, mon_wallets, inbox, stop_pc,
                 mon_error, announced, sent, sub_sent, confirmed, stop_calls>>
  /\ UNCHANGED <<blkVars, dlVars, fltVars, cliVars, decVars, emVars, idVars>>

\* asyncio.sleep(RPC_RETRY_DELAY_SECONDS) ends and the loop posts again; on
\* a closed session the POST raises RuntimeError at once
SleepDone ==
  /\ mon_pc = "sleep"
  /\ IF call_closed
     THEN OnBlockDone([raised |-> TRUE, exc |-> "RuntimeError", trades |-> <<>>])
     ELSE /\ mon_pc' = "rpc"
          /\ UNCHANGED <<cur, cur_call, trace>>
  /\ UNCHANGED <<running, ws, conn, conn_close, http_session, call_closed,
                 mon_wallets, inbox, stop_pc, mon_error, announced, sent, sub_sent,
                 confirmed, stop_calls, mon_faults, mon_last_rpc>>
  /\ UNCHANGED <<blkVars, dlVars, fltVars, cliVars, decVars, emVars, idVars>>

\* PolygonClient.disconnect from "if self._http_session:" on
CloseHttp ==
  IF http_session # "none"
  THEN /\ http_session' = "closed"
       /\ call_closed' = (call_closed \/ mon_pc \in {"rpc", "sleep"})
       /\ stop_pc' = "http_close"
  ELSE /\ stop_pc' = "idle"
       /\ UNCHANGED <<http_session, call_closed>>

\* stop() is called: self._running = False, then disconnect() up to its
\* first await
StopCall ==
  /\ stop_pc = "idle"
  /\ Len(stop_calls) < MaxStops
  /\ stop_calls' = Append(stop_calls, mon_pc)
  /\ running' = FALSE
  /\ IF ws = "set"
     THEN /\ conn' = "closed"
          /\ conn_close' = IF conn = "open" THEN "local" ELSE conn_close
          /\ stop_pc' = "ws_close"
          /\ UNCHANGED <<http_session, call_closed>>
     ELSE /\ CloseHttp
          /\ UNCHANGED <<conn, conn_close>>
  /\ UNCHANGED <<mon_pc, ws, mon_wallets, inbox, cur, cur_call, mon_error, trace,
                 announced, sent, sub_sent, confirmed, mon_faults, mon_last_rpc>>
  /\ UNCHANGED <<blkVars, dlVars, fltVars, cliVars, decVars, emVars, idVars>>

\* await self._ws.close() ends: self._ws = None, then the HTTP session
StopWsClosed ==
  /\ stop_pc = "ws_close"
  /\ ws' = "none"
  /\ CloseHttp
  /\ UNCHANGED <<mon_pc, running, conn, conn_close, mon_wallets, inbox, cur,
                 cur_call, mon_error, trace, announced, sent, sub_sent, confirmed,
                 stop_calls, mon_faults, mon_last_rpc>>
  /\ UNCHANGED <<blkVars, dlVars, fltVars, cliVars, decVars, emVars, idVars>>

\* await self._http_session.close() ends: self._http_session = None
StopHttpClosed ==
  /\ stop_pc = "http_close"
  /\ http_session' = "none"
  /\ stop_pc' = "idle"
  /\ UNCHANGED <<mon_pc, running, ws, conn, conn_close, call_closed, mon_wallets,
                 inbox, cur, cur_call, mon_error, trace, announced, sent, sub_sent,
                 confirmed, stop_calls, mon_faults, mon_last_rpc>>
  /\ UNCHANGED <<blkVars, dlVars, fltVars, cliVars, decVars, emVars, idVars>>

InitMon ==
  /\ MonIdle /\ BlkIdle /\ FltIdle /\ DlInit(1, 0)
  /\ CliIdle /\ DecIdle /\ EmIdle /\ IdIdle

NextMon ==
  \/ \E w \in MonWallets : Start(w)
  \/ \E ok \in BOOLEAN : ConnectDone(ok)
  \/ SendDone
  \/ Confirm
  \/ \E msg \in MonMessages : ServerSend(msg)
  \/ \E cause \in {"server", "drop"} : ConnLost(cause)
  \/ Receive
  \/ ListenEnd
  \/ \E o \in MonOutcomes : RpcResponse(o)
  \/ SleepDone

\* a session in which stop() is not called
SpecMon == InitMon /\ [][NextMon]_vars

\* a session of notifications of block 1 in which stop() is called, at any
\* await of start() and any number of times up to MaxStops
NextStop ==
  \/ Start(<<>>)
  \/ \E ok \in BOOLEAN : ConnectDone(ok)
  \/ SendDone
  \/ Confirm
  \/ ServerSend(HeadMsg(1))
  \/ ConnLost("drop")
  \/ Receive
  \/ ListenEnd
  \/ \E o \in {"ok", "client_error"} : RpcResponse(o)
  \/ SleepDone
  \/ StopCall
  \/ StopWsClosed
  \/ StopHttpClosed

SpecStop == InitMon /\ [][NextStop]_vars

(***************************************************************************)
(* Properties of the live monitor (under SpecMon and SpecStop).            *)
(***************************************************************************)
\* the positions of the trace where event ev of notification n stands
At(ev, n) == {p \in DOMAIN trace : trace[p].ev = ev /\ trace[p].n = n}

\* the exceptions that reach the except block of start() from the transport
TransportErrors ==
  {"ProtocolError", "ConnectionClosed", "ConnectionClosedError", "AttributeError"}

\* start() has ended in its except block: the last emit call is the "close"
SessionFailed ==
  /\ mon_pc = "done"
  /\ trace # <<>>
  /\ trace[Len(trace)].ev = "close"

\* what _on_block emits for notification n when no RPC call raises
ExpectedEmits(n) ==
  LET b == announced[n]
      r == ProcessBlock(WalletSet(mon_wallets), b, LiveBlock(b).transactions,
                        LiveBlock(b).receipts)
  IN IF r.raised THEN <<Event("error", n, <<>>, r.exc)>>
     ELSE [k \in DOMAIN r.trades |-> Event("transaction", n, <<r.trades[k]>>, "")]

\* C15: when the transport fails during a session, the monitor emits one
\* "error" event and then one "close" event with the reason, and is
\* afterwards DISCONNECTED: the transport is closed and the monitor is not
\* marked running.
C15_FailureLeavesDisconnected ==
  SessionFailed =>
    /\ Len(trace) >= 2
    /\ trace[Len(trace) - 1].ev = "error"
    /\ trace[Len(trace) - 1].text = trace[Len(trace)].text
    /\ Cardinality({p \in DOMAIN trace : trace[p].ev = "close"}) = 1
    /\ ~running
    /\ conn # "open"
    /\ ws = "none"

\* C32: when the connect step of start() fails, start() raises the exception
\* to its caller and no "error" and no "close" event is emitted; an "error"
\* followed by a "close" is emitted only for a failure that occurs after the
\* connection has been established.
C32_ConnectFailureRaisesWithoutEvents ==
  /\ mon_pc = "raised" =>
       /\ mon_error = <<"ConnectionError">>
       /\ conn = "none"
       /\ ws = "none"
       /\ \A p \in DOMAIN trace : trace[p].ev \notin {"error", "close"}
  /\ \A p \in DOMAIN trace :
       trace[p].ev = "close" =>
         /\ conn # "none"
         /\ mon_error = <<>>
         /\ p > 1
         /\ trace[p - 1].ev = "error"
         /\ trace[p - 1].n = 0
         /\ trace[p - 1].text = trace[p].text

\* start() has raised out of its connect step: nothing was emitted, and the
\* monitor is still marked running
C32_Witness ==
  /\ mon_pc = "raised"
  /\ mon_error = <<"ConnectionError">>
  /\ mon_wallets # <<>>
  /\ running
  /\ trace = <<>>

\* C16: when the processing of an announced block raises, an "error" event
\* is emitted for that block, _on_block returns, and the loop goes on with
\* the next notification: every _on_block call that is not in progress has
\* returned after emitting either that one "error" or the block's
\* "transaction" events, and a "close" is emitted only for a failure of the
\* transport.
C16_BlockFailureKeepsSubscription ==
  /\ \A p \in DOMAIN trace :
       trace[p].ev = "begin" =>
         LET n == trace[p].n
         IN IF cur # <<>> /\ cur[1].n = n
            THEN At("end", n) = {} /\ mon_pc \in {"rpc", "sleep"}
            ELSE \E q \in At("end", n) :
                   /\ q > p
                   /\ LET seg == SubSeq(trace, p + 1, q - 1)
                      IN \/ seg = ExpectedEmits(n)
                         \/ seg = <<Event("error", n, <<>>, "TimeoutError")>>
                   /\ q = Len(trace) => mon_pc \in {"listening", "done"}
  /\ \A p \in DOMAIN trace :
       trace[p].ev = "close" =>
         /\ trace[p].text \in TransportErrors
         /\ p = Len(trace)
  /\ \A p \in DOMAIN trace :
       (trace[p].ev = "error" /\ trace[p].n = 0) => trace[p].text \in TransportErrors

\* the first block's processing raised KeyError, an "error" was emitted, and
\* the second block's trades were emitted after it
C16_Witness ==
  /\ \E p \in At("error", 1) : trace[p].text = "KeyError"
  /\ At("end", 1) # {}
  /\ At("transaction", 2) # {}
  /\ At("end", 2) # {}
  /\ mon_pc = "listening"

C18_NothingBeforeConfirmation ==
  /\ sub_sent => conn # "none"
  /\ confirmed => sub_sent
  /\ mon_pc \in {"listening", "rpc", "sleep"} => confirmed
  /\ cur # <<>> => confirmed
  /\ (\E p \in DOMAIN trace : trace[p].ev \in {"begin", "transaction", "end"}) => confirmed
  /\ mon_pc \in {"idle", "connecting"} => ~sub_sent /\ trace = <<>>
  /\ mon_pc \in {"sending", "confirming"} => ~confirmed /\ inbox = <<>>

\* the subscription was confirmed and a trade has been emitted
C18_Witness ==
  /\ confirmed
  /\ \E p \in DOMAIN trace : trace[p].ev = "transaction"

\* C19: stop() may be called in any state; it closes the transport and
\* leaves the monitor DISCONNECTED (a second stop() changes nothing).
\* Stated for the stop() calls made after start(): once stop() has returned,
\* the monitor is not running and its connection is not open.
C19_StopLeavesDisconnected ==
  (stop_pc = "idle" /\ \E k \in DOMAIN stop_calls : stop_calls[k] # "idle")
    => /\ ~running
       /\ conn # "open"
       /\ ws = "none"

\* C20: the monitor processes at most one block at a time, in the arrival
\* order of the notifications: the _on_block call of notification k+1
\* begins only after the call of notification k, with its emit calls, has
\* returned.
C20_OneBlockAtATimeInArrivalOrder ==
  LET begun == Len(announced) - HeadCount(inbox)
  IN /\ \A n \in 1..Len(announced) :
          Cardinality(At("begin", n)) = (IF n <= begun THEN 1 ELSE 0)
     /\ \A p \in DOMAIN trace : \A q \in DOMAIN trace :
          (p < q /\ trace[p].ev = "begin" /\ trace[q].ev = "begin")
            => /\ trace[p].n < trace[q].n
               /\ \E r \in At("end", trace[p].n) : p < r /\ r < q
     /\ \A p \in DOMAIN trace :
          (trace[p].n > 0 /\ trace[p].ev \in {"transaction", "error", "end"})
            => /\ \E b \in At("begin", trace[p].n) : b < p
               /\ \A e \in At("end", trace[p].n) : p <= e
     /\ cur # <<>> =>
          /\ cur[1].n = begun
          /\ cur[1].block = announced[cur[1].n]
          /\ At("end", cur[1].n) = {}
     /\ Cardinality({n \in 1..Len(announced) : At("begin", n) # {} /\ At("end", n) = {}})
          <= 1

\* the second notification is being processed after the first one ended,
\* while a third one, which arrived meanwhile, waits
C20_Witness ==
  /\ mon_pc = "rpc"
  /\ cur # <<>>
  /\ cur[1].n = 2
  /\ At("end", 1) # {}
  /\ At("transaction", 1) # {}
  /\ HeadCount(inbox) = 1

(***************************************************************************)
(* src/monitor.py: on, emit and the observers.  An observer is either a    *)
(* plain function, which emit calls, or a coroutine function, for which    *)
(* emit creates a task; the event loop runs the task (up to its first      *)
(* await) when the task that runs start() is suspended.  The fetches of    *)
(* process_block are part of SpecMon; here _on_block is taken from the     *)
(* return of the second fetch.                                             *)
(***************************************************************************)
\* registrations made over the session
MaxObservers == 2
\* blocks announced over the session
MaxEmBlocks == 2

Observers == {[id |-> 1, coro |-> FALSE], [id |-> 2, coro |-> TRUE]}
EmEvents == {"transaction", "error", "other"}

EmData(trade, text) == [trade |-> trade, text |-> text]

EmEntry(op, event, n, k, pos, cb, data) ==
  [op |-> op, event |-> event, n |-> n, k |-> k, pos |-> pos, cb |-> cb, data |-> data]

\* emit that awaits each coroutine observer instead of creating a task
EmitAwaited(event, n, k, data, cbs) ==
  Flatten([p \in DOMAIN cbs |->
             IF cbs[p].coro
             THEN <<EmEntry("schedule", event, n, k, p, cbs[p].id, data),
                    EmEntry("run", event, n, k, p, cbs[p].id, data)>>
             ELSE <<EmEntry("call", event, n, k, p, cbs[p].id, data)>>])

\* TradeMonitor.emit(event, data) with self._callbacks[event] = cbs, as the
\* k-th emit call of the _on_block call number n
Emit(event, n, k, data, cbs) ==
  [p \in DOMAIN cbs |->
     EmEntry(IF cbs[p].coro THEN "schedule" ELSE "call", event, n, k, p, cbs[p].id, data)]

\* TradeMonitor.on
On(event, cb) ==
  /\ Len(callbacks.transaction) + Len(callbacks.error) + Len(callbacks.close)
       < MaxObservers
  /\ callbacks' = IF event \in DOMAIN callbacks
                  THEN [callbacks EXCEPT ![event] = Append(@, cb)]
                  ELSE callbacks
  /\ UNCHANGED <<em_blocks, em_log, em_tasks>>
  /\ UNCHANGED <<blkVars, dlVars, fltVars, monVars, cliVars, decVars, idVars>>

\* what process_block gives for block b of the live chain (all trades tracked)
EmProcessed(b) ==
  ProcessBlock(WalletSet(<<>>), b, LiveBlock(b).transactions, LiveBlock(b).receipts)

\* the body of TradeMonitor._on_block for the _on_block call number n, r
\* being what process_block gave: the observer calls and task creations of
\* its emit calls, in order
EmOnBlockEmits(n, r) ==
  IF r.raised
  THEN Emit("error", n, 1, EmData(<<>>, r.exc), callbacks.error)
  ELSE Flatten([k \in DOMAIN r.trades |->
                  Emit("transaction", n, k, EmData(<<r.trades[k]>>, ""),
                       callbacks.transaction)])

\* what the emit calls leave behind: the observers called and the tasks
\* created (asyncio.create_task), which wait for the event loop
EmRecord(entries) ==
  /\ em_log' = em_log \o entries
  /\ em_tasks' = em_tasks \o SelectSeq(entries, LAMBDA e : e.op = "schedule")

\* TradeMonitor._on_block(b, processor) from the return of the fetches: the
\* loop over the trades, or the except branch; there is no await in it
EmOnBlock(b) ==
  /\ Len(em_blocks) < MaxEmBlocks
  /\ EmRecord(EmOnBlockEmits(Len(em_blocks) + 1, EmProcessed(b)))
  /\ em_blocks' = Append(em_blocks,
                         [block |-> b, ntx |-> Len(callbacks.transaction),
                          nerr |-> Len(callbacks.error)])
  /\ UNCHANGED callbacks
  /\ UNCHANGED <<blkVars, dlVars, fltVars, monVars, cliVars, decVars, idVars>>

\* the event loop runs the oldest task that emit created
RunTask ==
  /\ em_tasks # <<>>
  /\ em_log' = Append(em_log, [Head(em_tasks) EXCEPT !.op = "run"])
  /\ em_tasks' = Tail(em_tasks)
  /\ UNCHANGED <<callbacks, em_blocks>>
  /\ UNCHANGED <<blkVars, dlVars, fltVars, monVars, cliVars, decVars, idVars>>

InitEmit ==
  /\ EmIdle /\ MonIdle /\ BlkIdle /\ FltIdle /\ DlInit(1, 0)
  /\ CliIdle /\ DecIdle /\ IdIdle

NextEmit ==
  \/ \E ev \in EmEvents, cb \in Observers : On(ev, cb)
  \/ \E b \in LiveBlocks : EmOnBlock(b)
  \/ RunTask

SpecEmit == InitEmit /\ [][NextEmit]_vars

\* the positions of em_log that hold the observer calls and task creations
\* of the _on_block call number n
EmitsOf(n) == {p \in DOMAIN em_log : em_log[p].n = n /\ em_log[p].op \in {"call", "schedule"}}

\* C21: for each processed block the monitor emits one "transaction" event
\* per TradeData the processor returned, in the order returned, each to the
\* registered observers in registration order; two emissions do not overlap,
\* and a coroutine observer is scheduled, not awaited: its task runs only
\* after the emissions of the block.
C21_EmissionsInOrderNotAwaited ==
  /\ \A n \in DOMAIN em_blocks :
       LET r == EmProcessed(em_blocks[n].block)
           m == em_blocks[n].ntx
           idx == EmitsOf(n)
           lo == IF idx = {} THEN 0 ELSE CHOOSE p \in idx : \A q \in idx : p <= q
       IN /\ \A p \in idx : \A q \in idx : \A x \in p..q : x \in idx
          /\ ~r.raised =>
               /\ Cardinality(idx) = Len(r.trades) * m
               /\ \A p \in idx :
                    LET e == em_log[p]
                        k == ((p - lo) \div m) + 1
                        pos == ((p - lo) % m) + 1
                    IN /\ e.event = "transaction"
                       /\ e.k = k
                       /\ e.pos = pos
                       /\ e.data = EmData(<<r.trades[k]>>, "")
                       /\ e.cb = callbacks.transaction[pos].id
                       /\ e.op = (IF callbacks.transaction[pos].coro
                                  THEN "schedule" ELSE "call")
  /\ \A p \in DOMAIN em_log :
       em_log[p].op = "run" =>
         /\ \E q \in 1..(p - 1) : em_log[q] = [em_log[p] EXCEPT !.op = "schedule"]
         /\ \A q \in EmitsOf(em_log[p].n) : q < p
  /\ \A p \in DOMAIN em_log : em_log[p].n \in DOMAIN em_blocks

\* a block with two trades was emitted to a plain observer and a coroutine
\* observer, and the task of the first trade ran after the second emission
C21_Witness ==
  /\ Len(callbacks.transaction) = 2
  /\ callbacks.transaction[1].coro # callbacks.transaction[2].coro
  /\ \E n \in DOMAIN em_blocks :
       /\ Len(EmProcessed(em_blocks[n].block).trades) = 2
       /\ Cardinality(EmitsOf(n)) = 4
       /\ \E p \in DOMAIN em_log :
            /\ em_log[p].op = "run" /\ em_log[p].n = n /\ em_log[p].k = 1
            /\ \E q \in EmitsOf(n) : em_log[q].k = 2 /\ q < p

(***************************************************************************)
(* Properties of the download command (under Spec).                        *)
(***************************************************************************)
\* a pool thread is running _process_block, or a work item waits for one
PoolBusy == \E b \in Blocks : task[b].st \in {"queued", "running"}

ScannedBlocks == Max(0, end_block[1] - start_block[1] + 1)

\* C23: when start_block is not given, download scans at most max_blocks
\* blocks: the resolved range [start_block, end_block] holds no more than
\* max_blocks blocks.
C23_ScansAtMostMaxBlocks ==
  (Resolved /\ cli_args # <<>> /\ cli_args[1].start_block = <<>>)
    => ScannedBlocks <= max_blocks

\* C24: two runs of download over the same [start_block, end_block] against
\* the same chain deliver the same on_trades calls with the same records in
\* the same order, for every interleaving of the workers and every pattern
\* of retried calls: at every point of a run, what has been delivered and
\* what has been accumulated for the current batch is a function of the
\* chain, the range, the batch size and the number of blocks done, and of
\* nothing else.
C24_OutputDeterminedByRangeAndChain ==
  Resolved =>
    LET s == start_block[1]
        hi == Min(end_block[1], s + i - 1)
    IN /\ delivered = ExpectedFrom(chain, s, hi, batch_size)
       /\ Flatten(delivered) = RangeTrades(chain, s, hi)
       /\ pc = "collect" =>
            batch_trades = RangeTrades(chain, CurBatch[1], CurBatch[1] + j - 2)
       /\ pc = "done" => hi = end_block[1] \/ total_blocks = 0

\* a run that returned after two on_trades calls, in which workers ended out
\* of submission order and a call had to be retried
C24_Witness ==
  /\ pc = "done"
  /\ out_of_order
  /\ faults >= 1
  /\ Len(delivered) = 2
  /\ Len(Flatten(delivered)) >= 3

\* the batches whose loop body has run to its end
EndedBatches ==
  IF pc \in {"loop", "done"} THEN Len(batches) ELSE Max(0, Len(batches) - 1)

\* the matching trades of the blocks of batch number n
TradesOfBatch(n) ==
  RangeTrades(chain, batches[n][1], batches[n][Len(batches[n])])

\* the ended batches that hold at least one matching trade, in order
BatchesWithTrades ==
  SelectSeq([n \in 1..EndedBatches |-> n], LAMBDA n : TradesOfBatch(n) # <<>>)

\* C25: on_trades is called exactly once for each batch that holds at least
\* one matching trade, with all matching trades of that batch, and never
\* for a batch without trades (never with an empty list); a range that fits
\* in one batch gives at most one call.
C25_OneCallPerBatchWithTrades ==
  /\ \A k \in DOMAIN delivered : delivered[k] # <<>>
  /\ Len(delivered) = Len(BatchesWithTrades)
  /\ \A k \in DOMAIN delivered : delivered[k] = TradesOfBatch(BatchesWithTrades[k])
  /\ (Resolved /\ total_blocks <= batch_size) => Len(delivered) <= 1

\* a download of three batches of which only one has trades: one call
C25_Witness ==
  /\ pc = "done"
  /\ Len(batches) = 3
  /\ Len(delivered) = 1
  /\ \E n \in 1..3 : TradesOfBatch(n) = <<>>

\* the _rpc_call made for block b has failed on its last attempt
RetriesExhausted(b) ==
  /\ task[b].st = "failed"
  /\ task[b].rpc.status = "raised"
  /\ task[b].rpc.attempt = RPC_MAX_RETRIES

\* C31: when a block of batch n has exhausted its retries, the batches
\* before n have already been delivered to on_trades, no trade of batch n is
\* ever delivered (also not of the blocks of batch n that succeeded), the
\* loop does not go on, and download() raises only after every submitted
\* work item of batch n has finished.
C31_FailedBatchIsDroppedAfterItsWorkersEnd ==
  (batches # <<>> /\ \E b \in BlocksOf(CurBatch) : RetriesExhausted(b)) =>
    /\ pc \in {"collect", "unwind", "raised"}
    /\ delivered = ExpectedFrom(chain, start_block[1], CurBatch[1] - 1, batch_size)
    /\ \A k \in DOMAIN delivered : \A m \in DOMAIN delivered[k] :
         delivered[k][m].block_number \notin BlocksOf(CurBatch)
    /\ pc = "raised" =>
         /\ \A b \in BlocksOf(CurBatch) : task[b].st \in {"done", "failed"}
         /\ error # <<>>
         /\ error[1].block \in BlocksOf(CurBatch)

\* download() has raised in its second batch after the first was delivered:
\* a block of the second batch exhausted its retries, and a later block of
\* that batch, which made the last RPC call of the run, succeeded with trades
C31_Witness ==
  /\ pc = "raised"
  /\ Len(batches) = 2
  /\ delivered # <<>>
  /\ \E b \in BlocksOf(CurBatch), b2 \in BlocksOf(CurBatch) :
       /\ RetriesExhausted(b)
       /\ error[1].block = b
       /\ b < b2
       /\ task[b2].st = "done"
       /\ task[b2].trades # <<>>
       /\ last_rpc # <<>>
       /\ last_rpc[1].caller = b2

(***************************************************************************)
(* The decoder-level specification: one input text is drawn and            *)
(* TransactionDecoder.decode is run on it.                                 *)
(***************************************************************************)
\* maker orders in an encoded call
MaxMakers == 2

DecPrefixes == {"0x", "", "0X"}

\* the first characters of the text after the prefix: nothing, one byte,
\* three bytes, an odd number of digits, the selector in lower and in upper
\* case, the selector of transfer(address,uint256), a selector that differs
\* in its last digit, text that is not hexadecimal
DecHeads ==
  { <<>>,
    <<"2", "2">>,
    <<"2", "2", "8", "7", "e", "3">>,
    <<"2", "2", "8">>,
    SelectorText,
    <<"2", "2", "8", "7", "E", "3", "5", "0">>,
    <<"a", "9", "0", "5", "9", "c", "b", "b">>,
    <<"2", "2", "8", "7", "e", "3", "5", "1">>,
    <<"z", "z", "8", "7", "e", "3", "5", "0">> }

DecMakerLists == UNION {[1..n -> {OrdA, OrdB}] : n \in 0..MaxMakers}

DecBodies ==
  {NoBody, BadBody("truncated"), BadBody("malformed"), BadBody("nonhex")}
  \cup {OkBody(t, ms) : t \in {OrdA, OrdB}, ms \in DecMakerLists}

\* the texts: a body can only follow a head of 8 characters
DecInputs ==
  {in \in {TxInput(p, h, b) : p \in DecPrefixes, h \in DecHeads, b \in DecBodies} :
     Len(in.head) = 8 \/ in.body = NoBody}

DecInit ==
  /\ dec_input \in DecInputs
  /\ dec_result = <<>>

\* decoder.decode(dec_input)
RunDecode ==
  /\ dec_result = <<>>
  /\ dec_result' = <<Decode(dec_input)>>
  /\ UNCHANGED dec_input
  /\ UNCHANGED <<blkVars, dlVars, fltVars, monVars, cliVars, emVars, idVars>>

InitDecode ==
  /\ DecInit /\ BlkIdle /\ DlInit(1, 0) /\ FltIdle /\ MonIdle
  /\ CliIdle /\ EmIdle /\ IdIdle

NextDecode == RunDecode

SpecDecode == InitDecode /\ [][NextDecode]_vars

(***************************************************************************)
(* Properties of decode (under SpecDecode).                                *)
(***************************************************************************)
\* the text, with or without "0x", begins with the 4 bytes 22 87 e3 50
BeginsWithSelector(in) ==
  /\ in.prefix \in {"0x", ""}
  /\ Len(in.head) = 8
  /\ \A k \in 1..8 : in.head[k] \in HexChars
  /\ \A k \in 1..8 : HexVal(in.head[k]) = HexVal(SelectorText[k])

\* the text is shorter than 4 bytes
ShorterThanSelector(in) == Len(in.head) < 8 /\ in.body = NoBody

\* the decoded order o carries the fields of the encoded order tuple t
CarriesFields(o, t) ==
  /\ o.salt = t[1]
  /\ o.maker = t[2]
  /\ o.signer = t[3]
  /\ o.taker = t[4]
  /\ o.token_id = ToString(t[5])
  /\ o.maker_amount = t[6]
  /\ o.taker_amount = t[7]
  /\ o.expiration = t[8]
  /\ o.nonce = t[9]
  /\ o.fee_rate_bps = t[10]
  /\ o.side = t[11]
  /\ o.signature_type = t[12]
  /\ o.signature = t[13]

\* C26: decode returns None for every input shorter than 4 bytes and for
\* every input whose first 4 bytes differ from the selector 0x2287e350, with
\* or without the "0x" prefix, and does not call the ABI decoder on the body
\* in those cases.
C26_NoneWithoutSelector ==
  (dec_result # <<>> /\ (ShorterThanSelector(dec_input) \/ ~BeginsWithSelector(dec_input)))
    => /\ ~dec_result[1].raised
       /\ dec_result[1].orders = <<>>
       /\ ~dec_result[1].abi_called

\* a well-formed argument body behind another selector, without "0x"
C26_Witness ==
  /\ dec_result # <<>>
  /\ dec_input.prefix = ""
  /\ dec_input.head = <<"a", "9", "0", "5", "9", "c", "b", "b">>
  /\ dec_input.body.kind = "ok"
  /\ dec_result[1].orders = <<>>

\* C27: for a well-formed encoded call with N maker orders (N >= 0) decode
\* returns exactly N+1 orders: element 0 carries the fields of the taker
\* order, elements 1..N those of the maker orders in their encoded order.
C27_TakerFirstThenMakers ==
  (dec_result # <<>> /\ BeginsWithSelector(dec_input) /\ dec_input.body.kind = "ok")
    => /\ ~dec_result[1].raised
       /\ dec_result[1].orders # <<>>
       /\ LET os == dec_result[1].orders[1]
              N == Len(dec_input.body.makers)
          IN /\ Len(os) = N + 1
             /\ CarriesFields(os[1], dec_input.body.taker)
             /\ \A k \in 1..N : CarriesFields(os[k + 1], dec_input.body.makers[k])

\* a call with two different maker orders has been decoded
C27_Witness ==
  /\ dec_result # <<>>
  /\ BeginsWithSelector(dec_input)
  /\ dec_input.body.kind = "ok"
  /\ dec_input.body.taker = OrdB
  /\ dec_input.body.makers = <<OrdA, OrdB>>
  /\ Len(dec_result[1].orders[1]) = 3

(***************************************************************************)
(* Undecodable transactions in a block (under SpecBlock).                  *)
(***************************************************************************)
\* the input is a matchOrders call that can be decoded
Decodable(in) == BeginsWithSelector(in) /\ in.body.kind = "ok"

\* transaction k has exactly one receipt, and its status is the text "0x1"
ReceiptOk(k) ==
  \E r \in DOMAIN blk_receipts :
    /\ ReceiptsOf(blk_txs[k].hash) = {r}
    /\ blk_receipts[r].has_status
    /\ blk_receipts[r].status = StatusOk

\* filter raises on transaction k: it is decodable and the status of its
\* receipt is absent or unreadable
FilterRaises(k) ==
  /\ Decodable(blk_txs[k].input)
  /\ \E r \in ReceiptsOf(blk_txs[k].hash) :
       \/ ~blk_receipts[r].has_status
       \/ PyInt16(blk_receipts[r].status).err

\* C28: decode never raises: non-hex text, truncated data or a malformed
\* body behind the selector give None, so an undecodable transaction does
\* not make the processing of its block fail (process_block raises only for
\* the receipt of a decodable transaction, _process_block never), and the
\* other transactions of the block still give their records.
C28_UndecodableTransactionIsSkipped ==
  /\ \A k \in DOMAIN blk_txs :
       LET d == Decode(blk_txs[k].input)
       IN /\ ~d.raised
          /\ ~Decodable(blk_txs[k].input) => d.orders = <<>>
  /\ dl_result # <<>> =>
       /\ ~dl_result[1].raised
       /\ dl_result[1].tx_count = Len(blk_txs)
       /\ \A k \in DOMAIN blk_txs :
            Cardinality(TradesWithHash(dl_result[1].trades, blk_txs[k].hash))
              = (IF Decodable(blk_txs[k].input) /\ ReceiptOk(k) THEN 1 ELSE 0)
  /\ pb_result # <<>> =>
       /\ pb_result[1].raised <=> \E k \in DOMAIN blk_txs : FilterRaises(k)
       /\ (~pb_result[1].raised /\ blk_wallets = <<>>) =>
            \A k \in DOMAIN blk_txs :
              (Decodable(blk_txs[k].input) /\ ReceiptOk(k))
                => Cardinality(TradesWithHash(pb_result[1].trades, blk_txs[k].hash)) = 1

\* a block whose first transaction cannot be decoded (truncated body behind
\* the selector) and whose second one gave a record in both procedures
C28_Witness ==
  /\ Len(blk_txs) = 2
  /\ blk_txs[1].input = InTruncated
  /\ Decodable(blk_txs[2].input)
  /\ pb_result # <<>>
  /\ dl_result # <<>>
  /\ ~pb_result[1].raised
  /\ Len(pb_result[1].trades) = 1
  /\ pb_result[1].trades[1].transaction_hash = blk_txs[2].hash
  /\ dl_result[1].trades = pb_result[1].trades

(***************************************************************************)
(* src/downloader.py: TradeDownloader._next_id on the threads of the pool. *)
(* Every worker runs _rpc_call, which takes an id for each attempt:        *)
(*     self._request_id += 1        load the attribute, add, store it      *)
(*     return self._request_id      load the attribute again               *)
(* No lock is held; the interpreter may switch threads between the load    *)
(* and the store, and between the store and the second load.               *)
(***************************************************************************)
\* calls of _next_id made by one thread
MaxIdCalls == 2

IdCallsOf(t) == Cardinality({p \in DOMAIN issued : issued[p].thread = t})

\* self._request_id += 1, first half: the thread loads the attribute
IdLoad(t) ==
  /\ id_pc[t] = "idle"
  /\ IdCallsOf(t) < MaxIdCalls
  /\ id_tmp' = [id_tmp EXCEPT ![t] = request_id]
  /\ id_pc' = [id_pc EXCEPT ![t] = "loaded"]
  /\ UNCHANGED <<request_id, issued>>
  /\ UNCHANGED <<blkVars, dlVars, fltVars, monVars, cliVars, decVars, emVars>>

\* self._request_id += 1, second half: the thread stores the sum
IdStore(t) ==
  /\ id_pc[t] = "loaded"
  /\ request_id' = id_tmp[t] + 1
  /\ id_pc' = [id_pc EXCEPT ![t] = "stored"]
  /\ UNCHANGED <<id_tmp, issued>>
  /\ UNCHANGED <<blkVars, dlVars, fltVars, monVars, cliVars, decVars, emVars>>

\* return self._request_id
IdReturn(t) ==
  /\ id_pc[t] = "stored"
  /\ issued' = Append(issued, [thread |-> t, id |-> request_id])
  /\ id_pc' = [id_pc EXCEPT ![t] = "idle"]
  /\ UNCHANGED <<request_id, id_tmp>>
  /\ UNCHANGED <<blkVars, dlVars, fltVars, monVars, cliVars, decVars, emVars>>

InitIds ==
  /\ IdIdle /\ BlkIdle /\ DlInit(MaxThreads, 0) /\ FltIdle /\ MonIdle
  /\ CliIdle /\ DecIdle /\ EmIdle

NextIds ==
  \/ \E t \in Threads : IdLoad(t)
  \/ \E t \in Threads : IdStore(t)
  \/ \E t \in Threads : IdReturn(t)

SpecIds == InitIds /\ [][NextIds]_vars

\* C29: concurrent workers access no shared mutable state: what a worker
\* has read is its own, so no other worker changes it before the worker
\* writes it back.
C29_WorkersShareNoMutableState ==
  \A t \in Threads : id_pc[t] = "loaded" => id_tmp[t] = request_id

\* C30: the request ids issued by one TradeDownloader are pairwise distinct
\* and strictly increasing in issue order, also when several workers call
\* _next_id at the same time.
C30_RequestIdsDistinctIncreasing ==
  \A p \in DOMAIN issued : \A q \in DOMAIN issued :
    p < q => issued[p].id < issued[q].id

====
